---- MODULE Spec2Model ----
(***************************************************************************)
(* Model of the handoff relay (src/server.ts): the sessions registry, the  *)
(* session objects, the cleanup timers and the WebSocket handlers open,    *)
(* message and close, with the suspension points of the async handlers;    *)
(* and of the terminal emulator class Framebuffer (framebuffer.ts, kept in *)
(* src/runner.ts): parser, cursor, scroll region, grid and serialize.      *)
(***************************************************************************)
EXTENDS Integers, Sequences, FiniteSets, TLC

\* ---------------------------------------------------------------- bounds
\* connections of each kind the relay accepts, and the number of client events
\* (upgrades, frames, disconnects) it receives
NumRunners == 2
NumViewers == 2
MaxEvents == 5
\* the same, for the runs that are checked for liveness
MaxLiveEvents == 4
\* the same, for the runs that also draw bad tokens, viewer frames, resize
\* messages and corrupt frames
MaxRelayEvents == 4

\* the size of the framebuffer under test and the number of write and resize
\* calls it receives
FbCols == 2
FbRows == 2
MaxFbCalls == 5
MaxParseCalls == 3

\* the longest payload handed to the replay codec
MaxDataLen == 2
MaxStatsCalls == 4
MaxChunks == 3

Runners == 1..NumRunners
Viewers == 1..NumViewers

\* the ids a /runner or /ws request can carry (?id=..., or genId's result)
SessionIds == {"apple", "kite"}

\* server.ts:16
CompressionMode == {"none", "zstd", "deflate", "smaz"}

\* server.ts:36 and the tokens a request can carry
TOKEN == "secret"

Tokens == {"secret", "guess"}

\* compression.ts constants
MIN_PADDING == 16
MAX_PADDING == 128

\* the null runner slot / the absent registry entry / an absent pad header
Null == 0
NoPad == -1

VARIABLES
  compressionMode,  \* server.ts:20, fixed at startup
  sessions,         \* server.ts:56 registry: id -> session object (or Null)
  sess,             \* the session objects, named by the runner that made them
  timers,           \* session objects whose setTimeout is pending
  rstate, rid,      \* runner connections: state and ws.data.id
  vstate, vid,      \* viewer connections: state and ws.data.id
  vcode,            \* close code the relay gave a viewer (0: none)
  rinbox,           \* frames the relay sent to each runner
  inbox,            \* frames the relay sent to each viewer
  inflight,         \* message handlers suspended at `await decompress`
  opening,          \* viewer open handlers suspended at `await compress`
  rejected,         \* message handlers whose promise rejected
  framebuffer,      \* a Framebuffer object on its own
  replay,           \* one replay frame on its way through the codec
  stats,            \* a stats tracker on its own: its totals and samples
  statsCalls,       \* its calls: Date.now() of the last, records made, last snapshot
  client,           \* a runner client on its own: its PTY callbacks and its socket
  events,           \* client events received so far; numbers the frames
  budget            \* client events the run admits

vars == <<compressionMode, sessions, sess, timers, rstate, rid, vstate, vid,
          vcode, rinbox, inbox, inflight, opening, rejected, framebuffer, replay,
          stats, statsCalls, client, events, budget>>

\* ------------------------------------------------------------ the codec
\* streaming codecs: no pad header (server.ts:92 "no padding needed")
zstdCompress(data) == [codec |-> "zstd", padLen |-> NoPad, payload |-> data]

smazCompress(data) == [codec |-> "smaz", padLen |-> NoPad, payload |-> data]

\* [u16 BE padLen][padLen random bytes][zstd(data)]
compressWithPadding(data, padLen) ==
  [codec |-> "zstd", padLen |-> padLen, payload |-> data]

smazCompressWithPadding(data, padLen) ==
  [codec |-> "smaz", padLen |-> padLen, payload |-> data]

RawBytes(data) == [codec |-> "raw", padLen |-> NoPad, payload |-> data]

compress(data) ==
  IF compressionMode = "zstd" THEN zstdCompress(data)
  ELSE IF compressionMode = "smaz" THEN smazCompress(data)
  ELSE RawBytes(data)

compressForReplay(data, padLen) ==
  IF compressionMode = "zstd" THEN compressWithPadding(data, padLen)
  ELSE IF compressionMode = "smaz" THEN smazCompressWithPadding(data, padLen)
  ELSE RawBytes(data)

\* what a runner sends for PTY output number seq (handoff.ts compress), or
\* bytes that are no output of the codec
RunnerFrame(seq, valid) ==
  IF valid THEN compress(seq)
  ELSE [codec |-> "corrupt", padLen |-> NoPad, payload |-> seq]

\* zstdDecompress / smazDecompress reject what their codec did not produce;
\* under none and deflate decompress returns its argument
decompressFails(data) ==
  /\ compressionMode \in {"zstd", "smaz"}
  /\ data.codec # compressionMode

decompress(data) == data.payload

\* the codec call behind an await really suspends the handler in the modes
\* that run a codec; in none/deflate the async helper returns its argument and
\* the continuation runs before any other event handler
Suspends == compressionMode \in {"zstd", "smaz"}

\* ------------------------------------------- the codec, byte for byte
\* A Uint8Array is a sequence of numbers in 0..255.
\* DataView.setUint16(0, n, false): two bytes, the most significant first
setUint16(n) == <<(n % 65536) \div 256, n % 256>>

\* a plausible slip: the length is read least significant byte first
getUint16LittleEndian(data) == data[2] * 256 + data[1]

\* DataView.getUint16(0, false)
getUint16(data) == data[1] * 256 + data[2]

\* data.slice(start)
slice(data, start) == SubSeq(data, start + 1, Len(data))

\* what a rejected promise stands for: no byte sequence, since no byte is -1
CodecError == <<-1>>

\* new CompressionStream("zstd"): a zstd frame begins with the magic number
\* 0xFD2FB528, least significant byte first, and carries the data
ZstdMagic == <<40, 181, 47, 253>>

CompressionStream(data) == ZstdMagic \o data

\* new DecompressionStream("zstd"): rejects what is no zstd frame
DecompressionStream(data) ==
  IF Len(data) >= Len(ZstdMagic) /\ SubSeq(data, 1, Len(ZstdMagic)) = ZstdMagic
  THEN slice(data, Len(ZstdMagic))
  ELSE CodecError

\* the smaz coder on bytes its codebook does not hold: one literal run, the
\* escape byte 255 and the run length less one before the bytes themselves
smazLiteralRun(data) ==
  IF data = <<>> THEN <<>> ELSE <<255, Len(data) - 1>> \o data

smazDecode(data) ==
  IF data = <<>> THEN <<>>
  ELSE IF Len(data) >= 3 /\ data[1] = 255 /\ Len(data) = data[2] + 3
  THEN slice(data, 2)
  ELSE CodecError

\* generateRandomPadding: MIN_PADDING + floor(random * (MAX_PADDING -
\* MIN_PADDING)) random bytes; the shortest and the longest, of either byte
Paddings ==
  {[j \in 1..n |-> b] : n \in {MIN_PADDING, MAX_PADDING - 1}, b \in {0, 255}}

\* [2-byte padding length (big endian)][padding bytes][compressed data]
compressWithPaddingBytes(data, padding) ==
  setUint16(Len(padding)) \o padding \o CompressionStream(data)

decompressWithPadding(data) ==
  IF Len(data) < 2 THEN CodecError
  ELSE LET paddingLength == getUint16(data)
           compressedData == slice(data, 2 + paddingLength)
       IN  DecompressionStream(compressedData)

smazCompressWithPaddingBytes(data, padding) ==
  setUint16(Len(padding)) \o padding \o smazLiteralRun(data)

smazDecompressWithPadding(data) ==
  IF Len(data) < 2 THEN CodecError
  ELSE LET paddingLength == getUint16(data)
           compressedData == slice(data, 2 + paddingLength)
       IN  smazDecode(compressedData)

compressForReplayBytes(data, padding) ==
  IF compressionMode = "zstd" THEN compressWithPaddingBytes(data, padding)
  ELSE IF compressionMode = "smaz" THEN smazCompressWithPaddingBytes(data, padding)
  ELSE data

decompressFromBuffer(data) ==
  IF compressionMode = "zstd" THEN decompressWithPadding(data)
  ELSE IF compressionMode = "smaz" THEN smazDecompressWithPadding(data)
  ELSE data

\* the payloads handed to the codec: up to MaxDataLen bytes
DataBytes == {0, 27, 255}

ReplayData == UNION {[1..n -> DataBytes] : n \in 0..MaxDataLen}

\* no frame is on its way
NoReplay == [stage |-> "idle", data |-> <<>>, padding |-> <<>>, frame |-> <<>>,
             out |-> <<>>]

\* -------------------------------------------------------- the framebuffer
\* class Framebuffer of framebuffer.ts.  Text is a sequence of characters;
\* the control characters are written "ESC", "LF", "CR", "TAB", "BS", "BEL"
\* and "NUL" (any other code below 32), the grave accent "GRAVE".  Arrays are sequences, index i of the
\* source being index i + 1 here.
Min(a, b) == IF a < b THEN a ELSE b

Max(a, b) == IF a > b THEN a ELSE b

defaultCell ==
  [char |-> " ", fg |-> -1, bg |-> -1, bold |-> FALSE, dim |-> FALSE,
   italic |-> FALSE, underline |-> FALSE, blink |-> FALSE, inverse |-> FALSE,
   hidden |-> FALSE, strikethrough |-> FALSE]

\* what reading past the end of an array, or reading a hole, gives
undefinedCell == [defaultCell EXCEPT !.char = "undefined"]

undefinedRow == <<undefinedCell>>

\* `a[i] = v`: an index past the end lengthens the array and leaves holes
ArraySet(a, i, v, hole) ==
  IF i < Len(a) THEN [a EXCEPT ![i + 1] = v]
  ELSE a \o [k \in 1..(i - Len(a)) |-> hole] \o <<v>>

\* `a.splice(i, 1)`
SpliceOut(a, i) ==
  IF i < Len(a) THEN SubSeq(a, 1, i) \o SubSeq(a, i + 2, Len(a)) ELSE a

\* `a.splice(i, 0, v)`
SpliceIn(a, i, v) ==
  LET j == Min(i, Len(a)) IN SubSeq(a, 1, j) \o <<v>> \o SubSeq(a, j + 1, Len(a))

\* `a.pop()`
Pop(a) == IF a = <<>> THEN a ELSE SubSeq(a, 1, Len(a) - 1)

\* is cells[y] an array (and not undefined)
IsRow(cells, y) == y >= 0 /\ y < Len(cells) /\ cells[y + 1] # undefinedRow

\* a TypeError leaves the method: the state is as far as the method got
Throw(fb) == [fb EXCEPT !.threw = TRUE]

createRow(fb) == [x \in 1..fb.cols |-> defaultCell]

createBuffer(fb) == [y \in 1..fb.rows |-> createRow(fb)]

\* the savedCursor, altBuffer and altCursor fields when they are null
NoSavedCursor == [x |-> -1, y |-> -1, attrs |-> defaultCell]

NoBuffer == <<>>

OriginCursor == [x |-> 0, y |-> 0, visible |-> TRUE]

\* new Framebuffer(cols, rows)
Framebuffer(cols, rows) ==
  LET dims == [cols |-> cols, rows |-> rows] IN
  [cols |-> cols, rows |-> rows, cells |-> createBuffer(dims),
   cursor |-> OriginCursor, savedCursor |-> NoSavedCursor,
   currentAttrs |-> defaultCell, scrollTop |-> 0, scrollBottom |-> rows - 1,
   altBuffer |-> NoBuffer, altCursor |-> OriginCursor, parseBuffer |-> <<>>,
   threw |-> FALSE]

\* the rows 0 .. n-1 of the resize copy loop, until one of them throws
RECURSIVE CopyRows(_, _, _, _, _)
CopyRows(fb, oldCells, n, width, y) ==
  IF y >= n THEN fb
  ELSE IF ~IsRow(oldCells, y) /\ width > 0 THEN Throw(fb)
  ELSE LET old == oldCells[y + 1]
           row == [x \in 1..fb.cols |->
                     IF x <= width
                     THEN (IF x <= Len(old) THEN old[x] ELSE undefinedCell)
                     ELSE fb.cells[y + 1][x]]
       IN  CopyRows([fb EXCEPT !.cells[y + 1] = row], oldCells, n, width, y + 1)

FbResize(fb, cols, rows) ==
  LET sized == [fb EXCEPT !.cols = cols, !.rows = rows, !.scrollBottom = rows - 1,
                          !.threw = FALSE]
      fresh == [sized EXCEPT !.cells = createBuffer(sized)]
      copied == CopyRows(fresh, fb.cells, Min(fb.rows, rows), Min(fb.cols, cols), 0)
  IN  IF copied.threw THEN copied
      ELSE [copied EXCEPT !.cursor.x = Min(@, cols - 1),
                          !.cursor.y = Min(@, rows - 1)]

scrollUp(fb) ==
  [fb EXCEPT !.cells = SpliceIn(SpliceOut(@, fb.scrollTop), fb.scrollBottom,
                                createRow(fb))]

scrollDown(fb) ==
  [fb EXCEPT !.cells = SpliceIn(SpliceOut(@, fb.scrollBottom), fb.scrollTop,
                                createRow(fb))]

linefeed(fb) ==
  IF fb.cursor.y = fb.scrollBottom THEN scrollUp(fb)
  ELSE IF fb.cursor.y < fb.rows - 1 THEN [fb EXCEPT !.cursor.y = @ + 1]
  ELSE fb

index(fb) == linefeed(fb)

reverseIndex(fb) ==
  IF fb.cursor.y = fb.scrollTop THEN scrollDown(fb)
  ELSE IF fb.cursor.y > 0 THEN [fb EXCEPT !.cursor.y = @ - 1]
  ELSE fb

\* a plausible slip: the wrap is done as soon as the last column is written
putCharEagerWrap(fb, char) ==
  IF ~IsRow(fb.cells, fb.cursor.y) THEN Throw(fb)
  ELSE LET put == [fb EXCEPT
                     !.cells[fb.cursor.y + 1] =
                        ArraySet(@, fb.cursor.x, [fb.currentAttrs EXCEPT !.char = char],
                                 undefinedCell),
                     !.cursor.x = @ + 1]
       IN  IF put.cursor.x >= put.cols
           THEN linefeed([put EXCEPT !.cursor.x = 0]) ELSE put

putChar(fb, char) ==
  LET at == IF fb.cursor.x >= fb.cols
            THEN linefeed([fb EXCEPT !.cursor.x = 0]) ELSE fb
  IN  IF ~IsRow(at.cells, at.cursor.y) THEN Throw(at)
      ELSE [at EXCEPT
              !.cells[at.cursor.y + 1] =
                 ArraySet(@, at.cursor.x, [at.currentAttrs EXCEPT !.char = char],
                          undefinedCell),
              !.cursor.x = @ + 1]

\* `row[x] = defaultCell()` for x = from .. to, on the row under the cursor
RECURSIVE BlankCells(_, _, _)
BlankCells(fb, from, to) ==
  IF from > to THEN fb
  ELSE IF ~IsRow(fb.cells, fb.cursor.y) THEN Throw(fb)
  ELSE BlankCells([fb EXCEPT !.cells[fb.cursor.y + 1] =
                      ArraySet(@, from, defaultCell, undefinedCell)],
                  from + 1, to)

\* `cells[y] = createRow()` for y = from .. to
RECURSIVE BlankRows(_, _, _)
BlankRows(fb, from, to) ==
  IF from > to THEN fb
  ELSE BlankRows([fb EXCEPT !.cells = ArraySet(@, from, createRow(fb), undefinedRow)],
                 from + 1, to)

eraseInLine(fb, mode) ==
  IF mode = 0 THEN BlankCells(fb, fb.cursor.x, fb.cols - 1)
  ELSE IF mode = 1 THEN BlankCells(fb, 0, fb.cursor.x)
  ELSE IF mode = 2 THEN BlankRows(fb, fb.cursor.y, fb.cursor.y)
  ELSE fb

eraseInDisplay(fb, mode) ==
  IF mode = 0
  THEN LET line == eraseInLine(fb, 0) IN
       IF line.threw THEN line ELSE BlankRows(line, fb.cursor.y + 1, fb.rows - 1)
  ELSE IF mode = 1
  THEN eraseInLine(BlankRows(fb, 0, fb.cursor.y - 1), 1)
  ELSE IF mode = 2 \/ mode = 3 THEN [fb EXCEPT !.cells = createBuffer(fb)]
  ELSE fb

RECURSIVE insertLines(_, _)
insertLines(fb, count) ==
  IF count <= 0 THEN fb
  ELSE insertLines(
         [fb EXCEPT !.cells = SpliceIn(SpliceOut(@, fb.scrollBottom), fb.cursor.y,
                                       createRow(fb))],
         count - 1)

RECURSIVE deleteLines(_, _)
deleteLines(fb, count) ==
  IF count <= 0 THEN fb
  ELSE deleteLines(
         [fb EXCEPT !.cells = SpliceIn(SpliceOut(@, fb.cursor.y), fb.scrollBottom,
                                       createRow(fb))],
         count - 1)

RECURSIVE insertChars(_, _)
insertChars(fb, count) ==
  IF count <= 0 THEN fb
  ELSE IF ~IsRow(fb.cells, fb.cursor.y) THEN Throw(fb)
  ELSE insertChars(
         [fb EXCEPT !.cells[fb.cursor.y + 1] =
            SpliceIn(Pop(@), fb.cursor.x, defaultCell)],
         count - 1)

RECURSIVE deleteChars(_, _)
deleteChars(fb, count) ==
  IF count <= 0 THEN fb
  ELSE IF ~IsRow(fb.cells, fb.cursor.y) THEN Throw(fb)
  ELSE deleteChars(
         [fb EXCEPT !.cells[fb.cursor.y + 1] =
            Append(SpliceOut(@, fb.cursor.x), defaultCell)],
         count - 1)

eraseChars(fb, count) ==
  BlankCells(fb, fb.cursor.x, Min(fb.cursor.x + count, fb.cols) - 1)

saveCursor(fb) ==
  [fb EXCEPT !.savedCursor =
     [x |-> fb.cursor.x, y |-> fb.cursor.y, attrs |-> fb.currentAttrs]]

\* a plausible slip: the position is restored and the attributes are not
restoreCursorPositionOnly(fb) ==
  IF fb.savedCursor = NoSavedCursor THEN fb
  ELSE [fb EXCEPT !.cursor.x = fb.savedCursor.x,
                  !.cursor.y = fb.savedCursor.y]

restoreCursor(fb) ==
  IF fb.savedCursor = NoSavedCursor THEN fb
  ELSE [fb EXCEPT !.cursor.x = fb.savedCursor.x,
                  !.cursor.y = fb.savedCursor.y,
                  !.currentAttrs = fb.savedCursor.attrs]

reset(fb) ==
  [fb EXCEPT !.cells = createBuffer(fb), !.cursor = OriginCursor,
             !.currentAttrs = defaultCell, !.scrollTop = 0,
             !.scrollBottom = fb.rows - 1, !.savedCursor = NoSavedCursor,
             !.altBuffer = NoBuffer, !.altCursor = OriginCursor]

\* `args[k] || dflt`: a missing or zero argument gives the default
ArgOr(args, k, dflt) ==
  IF k < Len(args) /\ args[k + 1] # 0 THEN args[k + 1] ELSE dflt

\* `args[k] === n`
ArgIs(args, k, n) == k < Len(args) /\ args[k + 1] = n

\* 24-bit colour approximated to the 256 palette (Math.floor(c / 51))
Approximate(r, g, b) == 16 + 36 * (r \div 51) + 6 * (g \div 51) + (b \div 51)

\* one code of an SGR sequence: the attributes after it
SGRCode(attrs, args, i) ==
  LET code == args[i + 1] IN
  IF code = 0 THEN defaultCell
  ELSE IF code = 1 THEN [attrs EXCEPT !.bold = TRUE]
  ELSE IF code = 2 THEN [attrs EXCEPT !.dim = TRUE]
  ELSE IF code = 3 THEN [attrs EXCEPT !.italic = TRUE]
  ELSE IF code = 4 THEN [attrs EXCEPT !.underline = TRUE]
  ELSE IF code = 5 THEN [attrs EXCEPT !.blink = TRUE]
  ELSE IF code = 7 THEN [attrs EXCEPT !.inverse = TRUE]
  ELSE IF code = 8 THEN [attrs EXCEPT !.hidden = TRUE]
  ELSE IF code = 9 THEN [attrs EXCEPT !.strikethrough = TRUE]
  ELSE IF code = 22 THEN [attrs EXCEPT !.bold = FALSE, !.dim = FALSE]
  ELSE IF code = 23 THEN [attrs EXCEPT !.italic = FALSE]
  ELSE IF code = 24 THEN [attrs EXCEPT !.underline = FALSE]
  ELSE IF code = 25 THEN [attrs EXCEPT !.blink = FALSE]
  ELSE IF code = 27 THEN [attrs EXCEPT !.inverse = FALSE]
  ELSE IF code = 28 THEN [attrs EXCEPT !.hidden = FALSE]
  ELSE IF code = 29 THEN [attrs EXCEPT !.strikethrough = FALSE]
  ELSE IF code >= 30 /\ code <= 37 THEN [attrs EXCEPT !.fg = code - 30]
  ELSE IF code = 38 THEN
    (IF ArgIs(args, i + 1, 5) THEN [attrs EXCEPT !.fg = ArgOr(args, i + 2, 0)]
     ELSE IF ArgIs(args, i + 1, 2)
     THEN [attrs EXCEPT !.fg = Approximate(ArgOr(args, i + 2, 0),
                                           ArgOr(args, i + 3, 0),
                                           ArgOr(args, i + 4, 0))]
     ELSE attrs)
  ELSE IF code = 39 THEN [attrs EXCEPT !.fg = -1]
  ELSE IF code >= 40 /\ code <= 47 THEN [attrs EXCEPT !.bg = code - 40]
  ELSE IF code = 48 THEN
    (IF ArgIs(args, i + 1, 5) THEN [attrs EXCEPT !.bg = ArgOr(args, i + 2, 0)]
     ELSE IF ArgIs(args, i + 1, 2)
     THEN [attrs EXCEPT !.bg = Approximate(ArgOr(args, i + 2, 0),
                                           ArgOr(args, i + 3, 0),
                                           ArgOr(args, i + 4, 0))]
     ELSE attrs)
  ELSE IF code = 49 THEN [attrs EXCEPT !.bg = -1]
  ELSE IF code >= 90 /\ code <= 97 THEN [attrs EXCEPT !.fg = code - 90 + 8]
  ELSE IF code >= 100 /\ code <= 107 THEN [attrs EXCEPT !.bg = code - 100 + 8]
  ELSE attrs

\* how far an SGR code moves the index: the extended colours eat their operands
SGRStep(args, i) ==
  IF args[i + 1] \in {38, 48}
  THEN (IF ArgIs(args, i + 1, 5) THEN 3 ELSE IF ArgIs(args, i + 1, 2) THEN 5 ELSE 1)
  ELSE 1

RECURSIVE SGRFrom(_, _, _)
SGRFrom(attrs, args, i) ==
  IF i >= Len(args) THEN attrs
  ELSE SGRFrom(SGRCode(attrs, args, i), args, i + SGRStep(args, i))

handleSGR(fb, args) == [fb EXCEPT !.currentAttrs = SGRFrom(@, args, 0)]

\* one mode of a DEC private mode sequence
DECMode(fb, mode, set) ==
  IF mode = 25 THEN [fb EXCEPT !.cursor.visible = set]
  ELSE IF mode = 1049 THEN
    (IF set
     THEN [fb EXCEPT !.altBuffer = fb.cells, !.altCursor = fb.cursor,
                     !.cells = createBuffer(fb), !.cursor = OriginCursor]
     ELSE IF fb.altBuffer # NoBuffer
     THEN [fb EXCEPT !.cells = fb.altBuffer, !.cursor = fb.altCursor,
                     !.altBuffer = NoBuffer, !.altCursor = OriginCursor]
     ELSE fb)
  ELSE fb

RECURSIVE DECModesFrom(_, _, _, _)
DECModesFrom(fb, args, set, i) ==
  IF i >= Len(args) THEN fb
  ELSE DECModesFrom(DECMode(fb, args[i + 1], set), args, set, i + 1)

handleDECMode(fb, args, command) == DECModesFrom(fb, args, command = "h", 0)

Digits == <<"0", "1", "2", "3", "4", "5", "6", "7", "8", "9">>

IsDigit(c) == \E d \in 1..10 : Digits[d] = c

DigitValue(c) == (CHOOSE d \in 1..10 : Digits[d] = c) - 1

\* parseInt(n, 10) || 0 on a run of digits (the empty run is NaN, so 0)
RECURSIVE parseInt(_)
parseInt(n) ==
  IF n = <<>> THEN 0
  ELSE 10 * parseInt(SubSeq(n, 1, Len(n) - 1)) + DigitValue(n[Len(n)])

\* params.split(";")
RECURSIVE split(_)
split(params) ==
  IF \A k \in DOMAIN params : params[k] # ";" THEN <<params>>
  ELSE LET k == CHOOSE j \in DOMAIN params :
                  params[j] = ";" /\ \A h \in 1..(j - 1) : params[h] # ";"
       IN  <<SubSeq(params, 1, k - 1)>> \o split(SubSeq(params, k + 1, Len(params)))

\* the decimal digits of a number, as template literals print it
RECURSIVE toString(_)
toString(n) ==
  IF n < 0 THEN <<"-">> \o toString(-n)
  ELSE IF n < 10 THEN <<Digits[n + 1]>>
  ELSE toString(n \div 10) \o <<Digits[(n % 10) + 1]>>

CSIArgs(params) ==
  IF params = <<>> THEN <<>>
  ELSE LET pieces == split(params) IN [k \in DOMAIN pieces |-> parseInt(pieces[k])]

handleCSI(fb, prefix, params, command) ==
  LET args == CSIArgs(params)
      n == ArgOr(args, 0, 1)
  IN
  IF prefix = "?" THEN handleDECMode(fb, args, command)
  ELSE IF command = "A" THEN [fb EXCEPT !.cursor.y = Max(0, @ - n)]
  ELSE IF command = "B" THEN [fb EXCEPT !.cursor.y = Min(fb.rows - 1, @ + n)]
  ELSE IF command = "C" THEN [fb EXCEPT !.cursor.x = Min(fb.cols - 1, @ + n)]
  ELSE IF command = "D" THEN [fb EXCEPT !.cursor.x = Max(0, @ - n)]
  ELSE IF command = "E"
  THEN [fb EXCEPT !.cursor.x = 0, !.cursor.y = Min(fb.rows - 1, @ + n)]
  ELSE IF command = "F"
  THEN [fb EXCEPT !.cursor.x = 0, !.cursor.y = Max(0, @ - n)]
  ELSE IF command = "G"
  THEN [fb EXCEPT !.cursor.x = Min(fb.cols - 1, Max(0, n - 1))]
  ELSE IF command \in {"H", "f"}
  THEN [fb EXCEPT !.cursor.y = Min(fb.rows - 1, Max(0, n - 1)),
                  !.cursor.x = Min(fb.cols - 1, Max(0, ArgOr(args, 1, 1) - 1))]
  ELSE IF command = "J" THEN eraseInDisplay(fb, ArgOr(args, 0, 0))
  ELSE IF command = "K" THEN eraseInLine(fb, ArgOr(args, 0, 0))
  ELSE IF command = "L" THEN insertLines(fb, n)
  ELSE IF command = "M" THEN deleteLines(fb, n)
  ELSE IF command = "P" THEN deleteChars(fb, n)
  ELSE IF command = "@" THEN insertChars(fb, n)
  ELSE IF command = "X" THEN eraseChars(fb, n)
  ELSE IF command = "d"
  THEN [fb EXCEPT !.cursor.y = Min(fb.rows - 1, Max(0, n - 1))]
  ELSE IF command = "m" THEN handleSGR(fb, IF args = <<>> THEN <<0>> ELSE args)
  ELSE IF command = "r"
  THEN [fb EXCEPT !.scrollTop = n - 1,
                  !.scrollBottom = ArgOr(args, 1, fb.rows) - 1]
  ELSE IF command = "s" THEN saveCursor(fb)
  ELSE IF command = "u" THEN restoreCursor(fb)
  ELSE fb

Letters ==
  {"a", "b", "c", "d", "e", "f", "g", "h", "i", "j", "k", "l", "m", "n", "o",
   "p", "q", "r", "s", "t", "u", "v", "w", "x", "y", "z",
   "A", "B", "C", "D", "E", "F", "G", "H", "I", "J", "K", "L", "M", "N", "O",
   "P", "Q", "R", "S", "T", "U", "V", "W", "X", "Y", "Z"}

\* the characters whose code is below 32
Control == {"ESC", "LF", "CR", "TAB", "BS", "BEL", "NUL"}

\* how long parse waits for the end of a CSI sequence (framebuffer.ts:172)
CSI_WAIT == 32

\* the length of the run of [0-9;] that starts at position p
RECURSIVE ParamRun(_, _)
ParamRun(buf, p) ==
  IF p < Len(buf) /\ (IsDigit(buf[p + 1]) \/ buf[p + 1] = ";")
  THEN 1 + ParamRun(buf, p + 1) ELSE 0

\* buf.slice(i).match(/^ESC\[([?!>]?)([0-9;]*)([a-zA-Z@GRAVE])/)
CSIMatch(buf, i) ==
  LET p0 == i + 2
      hasPrefix == p0 < Len(buf) /\ buf[p0 + 1] \in {"?", "!", ">"}
      p1 == IF hasPrefix THEN p0 + 1 ELSE p0
      p2 == p1 + ParamRun(buf, p1)
  IN  [ok |-> p2 < Len(buf) /\ buf[p2 + 1] \in Letters \cup {"@", "GRAVE"},
       prefix |-> IF hasPrefix THEN buf[p0 + 1] ELSE "",
       params |-> SubSeq(buf, p1 + 1, p2),
       command |-> IF p2 < Len(buf) THEN buf[p2 + 1] ELSE "",
       length |-> p2 + 1 - i]

\* buf.slice(i).search(/\x07|\x1b\\/)
OSCEnd(buf, i) ==
  LET ends == {e \in 0..(Len(buf) - i - 1) :
                 \/ buf[i + e + 1] = "BEL"
                 \/ /\ buf[i + e + 1] = "ESC"
                    /\ i + e + 1 < Len(buf)
                    /\ buf[i + e + 2] = "\\"}
  IN  IF ends = {} THEN -1 ELSE CHOOSE e \in ends : \A d \in ends : e <= d

\* `this.parseBuffer = buf.slice(i); return`
Retain(fb, buf, i) == [fb EXCEPT !.parseBuffer = SubSeq(buf, i + 1, Len(buf))]

\* how one pass through the body of parse's while loop ends: with `return`, or
\* at the top of the loop with index i
Return(fb) == [fb |-> fb, i |-> 0, return |-> TRUE]
Continue(fb, i) == [fb |-> fb, i |-> i, return |-> FALSE]

\* the body of the while loop of parse, at index i
ParseStep(fb, buf, i) ==
  LET char == buf[i + 1] IN
  IF char = "ESC" THEN
    IF i + 1 >= Len(buf) THEN Return(Retain(fb, buf, i))
    ELSE LET next == buf[i + 2] IN
    IF next = "[" THEN
      LET match == CSIMatch(buf, i) IN
      IF ~match.ok
      THEN (IF Len(buf) - i < CSI_WAIT THEN Return(Retain(fb, buf, i))
            ELSE Continue(fb, i + 2))
      ELSE Continue(handleCSI(fb, match.prefix, match.params, match.command),
                    i + match.length)
    ELSE IF next = "]" THEN
      LET end == OSCEnd(buf, i) IN
      IF end = -1 THEN Return(Retain(fb, buf, i))
      ELSE Continue(fb, i + end + (IF buf[i + end + 1] = "BEL" THEN 1 ELSE 2))
    ELSE IF next \in {"(", ")"} THEN Continue(fb, i + 3)
    ELSE IF next = "7" THEN Continue(saveCursor(fb), i + 2)
    ELSE IF next = "8" THEN Continue(restoreCursor(fb), i + 2)
    ELSE IF next = "M" THEN Continue(reverseIndex(fb), i + 2)
    ELSE IF next = "D" THEN Continue(index(fb), i + 2)
    ELSE IF next = "E" THEN Continue(index([fb EXCEPT !.cursor.x = 0]), i + 2)
    ELSE IF next = "c" THEN Continue(reset(fb), i + 2)
    ELSE Continue(fb, i + 2)
  ELSE IF char = "CR" THEN Continue([fb EXCEPT !.cursor.x = 0], i + 1)
  ELSE IF char = "LF" THEN Continue(linefeed(fb), i + 1)
  ELSE IF char = "TAB"
  THEN Continue([fb EXCEPT !.cursor.x = Min(fb.cols - 1, ((@ \div 8) + 1) * 8)],
                i + 1)
  ELSE IF char = "BS"
  THEN Continue([fb EXCEPT !.cursor.x = IF @ > 0 THEN @ - 1 ELSE @], i + 1)
  ELSE IF char \in Control THEN Continue(fb, i + 1)
  ELSE Continue(putChar(fb, char), i + 1)

\* the while loop of parse, from index i; a throw leaves parseBuffer as it is
RECURSIVE ParseFrom(_, _, _)
ParseFrom(fb, buf, i) ==
  IF fb.threw THEN fb
  ELSE IF i >= Len(buf) THEN [fb EXCEPT !.parseBuffer = <<>>]
  ELSE LET step == ParseStep(fb, buf, i) IN
       IF step.return THEN step.fb ELSE ParseFrom(step.fb, buf, step.i)

\* write(data): append to the parse buffer and parse it
FbWrite(fb, text) ==
  LET buf == fb.parseBuffer \o text IN
  ParseFrom([fb EXCEPT !.parseBuffer = buf, !.threw = FALSE], buf, 0)

\* the attributes of a cell, without its character
AttrsOf(cell) == [cell EXCEPT !.char = " "]

\* the parameters serialize gives the SGR sequence of a cell
SGROf(cell) ==
  <<0>>
  \o (IF cell.bold THEN <<1>> ELSE <<>>)
  \o (IF cell.dim THEN <<2>> ELSE <<>>)
  \o (IF cell.italic THEN <<3>> ELSE <<>>)
  \o (IF cell.underline THEN <<4>> ELSE <<>>)
  \o (IF cell.blink THEN <<5>> ELSE <<>>)
  \o (IF cell.inverse THEN <<7>> ELSE <<>>)
  \o (IF cell.hidden THEN <<8>> ELSE <<>>)
  \o (IF cell.strikethrough THEN <<9>> ELSE <<>>)
  \o (IF cell.fg >= 0 /\ cell.fg < 8 THEN <<30 + cell.fg>>
      ELSE IF cell.fg >= 8 /\ cell.fg < 16 THEN <<90 + cell.fg - 8>>
      ELSE IF cell.fg >= 16 THEN <<38, 5, cell.fg>> ELSE <<>>)
  \o (IF cell.bg >= 0 /\ cell.bg < 8 THEN <<40 + cell.bg>>
      ELSE IF cell.bg >= 8 /\ cell.bg < 16 THEN <<100 + cell.bg - 8>>
      ELSE IF cell.bg >= 16 THEN <<48, 5, cell.bg>> ELSE <<>>)

\* sgr.join(";")
RECURSIVE join(_)
join(sgr) ==
  IF Len(sgr) = 1 THEN toString(sgr[1])
  ELSE toString(sgr[1]) \o <<";">> \o join(Tail(sgr))

\* serialize reads cells[y][x].bold for every y < rows, x < cols
FbSerializeThrows(fb) ==
  \E y \in 0..(fb.rows - 1) :
    \/ ~IsRow(fb.cells, y)
    \/ \E x \in 1..fb.cols :
         x > Len(fb.cells[y + 1]) \/ fb.cells[y + 1][x] = undefinedCell

\* the cells from (x, y) on, in row order, with the attributes last emitted
RECURSIVE SerializeFrom(_, _, _, _)
SerializeFrom(fb, y, x, lastAttrs) ==
  IF y >= fb.rows THEN <<>>
  ELSE LET move == IF x = 0
                   THEN <<"ESC", "[">> \o toString(y + 1) \o <<";", "1", "H">>
                   ELSE <<>>
       IN
  IF x >= fb.cols THEN move \o SerializeFrom(fb, y + 1, 0, lastAttrs)
  ELSE LET cell == fb.cells[y + 1][x + 1]
           changed == AttrsOf(cell) # AttrsOf(lastAttrs)
           sgr == IF changed
                  THEN <<"ESC", "[">> \o join(SGROf(cell)) \o <<"m">>
                  ELSE <<>>
       IN  move \o sgr \o <<cell.char>>
           \o SerializeFrom(fb, y, x + 1, IF changed THEN cell ELSE lastAttrs)

FbSerialize(fb) ==
  <<"ESC", "[", "0", "m", "ESC", "[", "2", "J", "ESC", "[", "H">>
  \o SerializeFrom(fb, 0, 0, defaultCell)
  \o <<"ESC", "[", "0", "m", "ESC", "[">> \o toString(fb.cursor.y + 1)
  \o <<";">> \o toString(fb.cursor.x + 1) \o <<"H">>
  \o (IF fb.cursor.visible THEN <<>> ELSE <<"ESC", "[", "?", "2", "5", "l">>)

\* -------------------------------------------------------- the stats tracker
\* milliseconds a sample is kept (`now - 5000`)
LAST_5S == 5000

\* the closure createStatsTracker() returns, before any call
createStatsTracker ==
  [totalBytesIn |-> 0, totalBytesOut |-> 0, totalFramesIn |-> 0, totalFramesOut |-> 0,
   samples |-> <<>>]

\* samples.filter(s => s.ts >= cutoff): keeps a sample exactly 5 seconds old
pruneOldSamplesInclusive(samples, now) ==
  LET cutoff == now - LAST_5S
      younger(s) == s.ts >= cutoff
  IN SelectSeq(samples, younger)

\* samples.filter(s => s.ts > cutoff)
pruneOldSamples(samples, now) ==
  LET cutoff == now - LAST_5S
      younger(s) == s.ts > cutoff
  IN SelectSeq(samples, younger)

recordInbound(st, now, bytes) ==
  [st EXCEPT !.totalBytesIn = @ + bytes,
             !.totalFramesIn = @ + 1,
             !.samples = pruneOldSamples(
                Append(@, [ts |-> now, bytesIn |-> bytes, bytesOut |-> 0,
                           framesIn |-> 1, framesOut |-> 0]), now)]

recordOutbound(st, now, bytes) ==
  [st EXCEPT !.totalBytesOut = @ + bytes,
             !.totalFramesOut = @ + 1,
             !.samples = pruneOldSamples(
                Append(@, [ts |-> now, bytesIn |-> 0, bytesOut |-> bytes,
                           framesIn |-> 0, framesOut |-> 1]), now)]

\* samples.reduce((sum, s) => sum + s[field], 0)
RECURSIVE reduce(_, _)
reduce(samples, field) ==
  IF samples = <<>> THEN 0 ELSE samples[1][field] + reduce(Tail(samples), field)

\* what getSnapshot returns from the pruned samples; the two ratios are
\* quotients of fields kept here
getSnapshot(st) ==
  [totalBytesIn |-> st.totalBytesIn, totalBytesOut |-> st.totalBytesOut,
   bytesInLast5s |-> reduce(st.samples, "bytesIn"),
   bytesOutLast5s |-> reduce(st.samples, "bytesOut"),
   totalFramesIn |-> st.totalFramesIn, totalFramesOut |-> st.totalFramesOut,
   framesInLast5s |-> reduce(st.samples, "framesIn"),
   framesOutLast5s |-> reduce(st.samples, "framesOut")]

\* no call yet: the clock at 0, nothing recorded, no snapshot returned
NoCalls == [now |-> 0, recorded |-> <<>>, snapshot |-> getSnapshot(createStatsTracker)]

\* -------------------------------------------------------- the runner client
\* handoff.ts after launchProcess: the chunks the PTY has produced, the data
\* callbacks suspended at `await compress`, what ws.send has sent, and
\* whether the child has exited and the process has ended
NewClient == [produced |-> 0, pending |-> {}, sent |-> <<>>, exited |-> FALSE]

\* ------------------------------------------------------------- sessions
\* new Framebuffer() as the relay sees it: its size and what was written
NewFramebuffer == [cols |-> 80, rows |-> 24, written |-> <<>>]

\* Framebuffer.resize as the relay sees it
resize(fb, cols, rows) == [fb EXCEPT !.cols = cols, !.rows = rows]

\* server.ts:193, the object a runner open creates
NewSession(id, ws) ==
  [alloc |-> TRUE, id |-> id, runner |-> ws, viewers |-> {},
   framebuffer |-> NewFramebuffer, exited |-> FALSE, cleanupTimer |-> FALSE]

NoSession ==
  [alloc |-> FALSE, id |-> "", runner |-> Null, viewers |-> {},
   framebuffer |-> NewFramebuffer, exited |-> FALSE, cleanupTimer |-> FALSE]

\* a runner text frame: whether JSON.parse accepts it, and the fields of the
\* parsed object (an absent field is undefined, which is falsy like 0)
Text(type, cols, rows) ==
  [json |-> TRUE, type |-> type, cols |-> cols, rows |-> rows]

ExitText == Text("exit", 0, 0)

OtherText == Text("other", 0, 0)

MalformedText == [json |-> FALSE, type |-> "", cols |-> 0, rows |-> 0]

ResizeTexts == {Text("resize", 3, 2), Text("resize", 0, 2), Text("resize", -1, 2)}

TextMessages == {ExitText, OtherText, MalformedText} \cup ResizeTexts

\* Framebuffer.serialize as the relay uses it: a function of what was written
serialize(fb) == fb

\* a plausible slip: the viewers test of scheduleCleanup inverted
scheduleCleanupTimersInverted(o, s, T) ==
  LET cleared == IF s.cleanupTimer THEN T \ {o} ELSE T
  IN  IF s.exited /\ s.viewers # {} THEN cleared \cup {o} ELSE cleared

\* scheduleCleanup: the pending timers after the call
scheduleCleanupTimers(o, s, T) ==
  LET cleared == IF s.cleanupTimer THEN T \ {o} ELSE T
  IN  IF s.exited /\ s.viewers = {} THEN cleared \cup {o} ELSE cleared

\* scheduleCleanup: the session's cleanupTimer field after the call
scheduleCleanupField(s) ==
  IF s.exited /\ s.viewers = {} THEN TRUE ELSE s.cleanupTimer

\* ws.send to a viewer: a closed socket gets nothing
Deliver(box, targets, m) ==
  [v \in Viewers |->
     IF v \in targets /\ vstate[v] = "open" THEN Append(box[v], m) ELSE box[v]]

Msg(type, body) == [type |-> type, body |-> body]

\* connections are numbered in the order in which they are upgraded
NextToConnect(state, c) == \A d \in DOMAIN state : d < c => state[d] # "new"

Startup(admitted) ==
  /\ compressionMode \in CompressionMode
  /\ sessions = [i \in SessionIds |-> Null]
  /\ sess = [o \in Runners |-> NoSession]
  /\ timers = {}
  /\ rstate = [r \in Runners |-> "new"]
  /\ rid = [r \in Runners |-> ""]
  /\ vstate = [v \in Viewers |-> "new"]
  /\ vid = [v \in Viewers |-> ""]
  /\ vcode = [v \in Viewers |-> 0]
  /\ rinbox = [r \in Runners |-> <<>>]
  /\ inbox = [v \in Viewers |-> <<>>]
  /\ inflight = {}
  /\ opening = {}
  /\ rejected = {}
  /\ framebuffer = Framebuffer(FbCols, FbRows)
  /\ replay = NoReplay
  /\ stats = createStatsTracker
  /\ statsCalls = NoCalls
  /\ client = NewClient
  /\ events = 0
  /\ budget = admitted

Init == Startup(MaxEvents)

InitLive == Startup(MaxLiveEvents)

\* ------------------------------------------------------------- handlers
\* GET /runner with the right token, then websocket.open (runner branch)
RunnerOpen(r, id) ==
  /\ rstate[r] = "new"
  /\ NextToConnect(rstate, r)
  /\ events < budget
  /\ events' = events + 1
  /\ rstate' = [rstate EXCEPT ![r] = "open"]
  /\ rid' = [rid EXCEPT ![r] = id]
  /\ sess' = [sess EXCEPT ![r] = NewSession(id, r)]
  /\ sessions' = [sessions EXCEPT ![id] = r]
  /\ rinbox' = [rinbox EXCEPT ![r] =
                  Append(@, Msg("session", [id |-> id, compression |-> compressionMode]))]
  /\ UNCHANGED <<compressionMode, budget, framebuffer, replay, stats, statsCalls, client, rejected, timers, vstate, vid, vcode, inbox,
                 inflight, opening>>

\* server.ts:241: the text goes to every viewer as it came
TextForward(o, m) ==
  inbox' = Deliver(inbox, sess[o].viewers, Msg("text", m))

\* websocket.message, runner, text frame
RunnerText(r, m) ==
  /\ rstate[r] = "open"
  /\ events < budget
  /\ events' = events + 1
  /\ LET o == sessions[rid[r]] IN
       IF o = Null
       THEN UNCHANGED <<sess, inbox>>
       ELSE /\ sess' = [sess EXCEPT
                  ![o].exited = (@ \/ (m.json /\ m.type = "exit")),
                  ![o].framebuffer =
                     IF m.json /\ m.type = "resize" /\ m.cols # 0 /\ m.rows # 0
                     THEN resize(@, m.cols, m.rows) ELSE @]
            /\ TextForward(o, m)
  /\ UNCHANGED <<compressionMode, budget, framebuffer, replay, stats, statsCalls, client, rejected, sessions, timers, rstate, rid, vstate, vid,
                 vcode, rinbox, inflight, opening>>

\* a plausible slip: the frame is fanned out and the framebuffer left as it was
WriteAndForwardSendOnly(o, from, seq, data) ==
  /\ inbox' = Deliver(inbox, sess[o].viewers,
                      Msg("frame", [from |-> from, seq |-> seq, data |-> data]))
  /\ UNCHANGED sess

\* server.ts:249-255: framebuffer.write, then the fan-out of the original bytes
WriteAndForward(o, from, seq, data) ==
  /\ sess' = [sess EXCEPT ![o].framebuffer.written = Append(@, decompress(data))]
  /\ inbox' = Deliver(inbox, sess[o].viewers,
                      Msg("frame", [from |-> from, seq |-> seq, data |-> data]))

\* a plausible slip: the codec error is caught and the frame still forwarded
AfterDecompressForwardAlways(o, from, seq, data) ==
  IF decompressFails(data)
  THEN /\ inbox' = Deliver(inbox, sess[o].viewers,
                           Msg("frame", [from |-> from, seq |-> seq, data |-> data]))
       /\ rejected' = rejected \cup {[seq |-> seq, session |-> o]}
       /\ UNCHANGED sess
  ELSE /\ WriteAndForward(o, from, seq, data)
       /\ UNCHANGED rejected

\* server.ts:248-255: a rejected decompress ends the handler, there is no catch
AfterDecompress(o, from, seq, data) ==
  IF decompressFails(data)
  THEN /\ rejected' = rejected \cup {[seq |-> seq, session |-> o]}
       /\ UNCHANGED <<sess, inbox>>
  ELSE /\ WriteAndForward(o, from, seq, data)
       /\ UNCHANGED rejected

\* websocket.message, runner, binary frame: up to `await decompress`
RunnerBinary(r, valid) ==
  /\ rstate[r] = "open"
  /\ events < budget
  /\ events' = events + 1
  /\ LET o == sessions[rid[r]]
         data == RunnerFrame(events + 1, valid)
     IN
       IF o = Null
       THEN UNCHANGED <<sess, inbox, inflight, rejected>>
       ELSE IF Suspends
       THEN /\ inflight' = inflight \cup
                  {[ws |-> r, seq |-> events + 1, session |-> o, data |-> data]}
            /\ UNCHANGED <<sess, inbox, rejected>>
       ELSE /\ AfterDecompress(o, r, events + 1, data)
            /\ UNCHANGED inflight
  /\ UNCHANGED <<compressionMode, budget, framebuffer, replay, stats, statsCalls, client, sessions, timers, rstate, rid, vstate, vid,
                 vcode, rinbox, opening>>

\* the continuation of a suspended runner message handler
DecompressDone(h) ==
  /\ h \in inflight
  /\ inflight' = inflight \ {h}
  /\ AfterDecompress(h.session, h.ws, h.seq, h.data)
  /\ UNCHANGED <<compressionMode, budget, framebuffer, replay, stats, statsCalls, client, sessions, timers, rstate, rid, vstate, vid,
                 vcode, rinbox, opening, events>>

\* server.ts:211-222: the snapshot frame, then the ready marker
SnapshotFrames(snapshotBytes) ==
  LET frame == IF compressionMode = "zstd" \/ compressionMode = "smaz"
               THEN compress(snapshotBytes)
               ELSE RawBytes(snapshotBytes)
  IN  <<Msg("snapshot", frame), Msg("ready", "")>>

\* a plausible slip: the greeting is sent before the registry lookup
ViewerRejectedAfterGreeting(v) ==
  /\ vstate' = [vstate EXCEPT ![v] = "closed"]
  /\ vcode' = [vcode EXCEPT ![v] = 4004]
  /\ inbox' = [inbox EXCEPT ![v] = Append(@, Msg("compression", compressionMode))]
  /\ UNCHANGED <<sess, timers, opening>>

\* server.ts:199-203: ws.close(4004, "Session not found"); the close handler
\* this triggers finds no session under the id and returns (server.ts:275-278)
ViewerRejected(v) ==
  /\ vstate' = [vstate EXCEPT ![v] = "closed"]
  /\ vcode' = [vcode EXCEPT ![v] = 4004]
  /\ UNCHANGED <<sess, timers, inbox, opening>>

\* GET /ws with the right token and an id, then websocket.open (viewer branch)
ViewerOpen(v, id) ==
  /\ vstate[v] = "new"
  /\ NextToConnect(vstate, v)
  /\ events < budget
  /\ events' = events + 1
  /\ vid' = [vid EXCEPT ![v] = id]
  /\ LET o == sessions[id] IN
       IF o = Null
       THEN ViewerRejected(v)
       ELSE /\ vstate' = [vstate EXCEPT ![v] = "open"]
            /\ sess' = [sess EXCEPT ![o].viewers = @ \cup {v},
                                    ![o].cleanupTimer = FALSE]
            /\ timers' = IF sess[o].cleanupTimer THEN timers \ {o} ELSE timers
            /\ UNCHANGED vcode
            /\ LET greeted == [inbox EXCEPT ![v] =
                                 Append(@, Msg("compression", compressionMode))]
                   snapshot == serialize(sess[o].framebuffer)
               IN  IF Suspends
                   THEN /\ inbox' = greeted
                        /\ opening' = opening \cup {[ws |-> v, snapshot |-> snapshot]}
                   ELSE /\ inbox' = [greeted EXCEPT ![v] = @ \o SnapshotFrames(snapshot)]
                        /\ UNCHANGED opening
  /\ UNCHANGED <<compressionMode, budget, framebuffer, replay, stats, statsCalls, client, rejected, sessions, rstate, rid, rinbox, inflight>>

\* the continuation of a suspended viewer open handler
SnapshotDone(p) ==
  /\ p \in opening
  /\ opening' = opening \ {p}
  /\ inbox' = IF vstate[p.ws] = "open"
              THEN [inbox EXCEPT ![p.ws] = @ \o SnapshotFrames(p.snapshot)]
              ELSE inbox
  /\ UNCHANGED <<compressionMode, budget, framebuffer, replay, stats, statsCalls, client, rejected, sessions, sess, timers, rstate, rid, vstate,
                 vid, vcode, rinbox, inflight, events>>

\* a plausible slip: the runner slot is cleared and exited left as it was
RunnerGoneNotExited(s) == [s EXCEPT !.runner = Null]

\* server.ts:281-282
RunnerGone(s) == [s EXCEPT !.runner = Null, !.exited = TRUE]

\* websocket.close, runner branch
RunnerClose(r) ==
  /\ rstate[r] = "open"
  /\ events < budget
  /\ events' = events + 1
  /\ rstate' = [rstate EXCEPT ![r] = "closed"]
  /\ LET o == sessions[rid[r]] IN
       IF o = Null
       THEN UNCHANGED <<sess, timers>>
       ELSE LET s == RunnerGone(sess[o]) IN
            /\ sess' = [sess EXCEPT ![o] =
                          [s EXCEPT !.cleanupTimer = scheduleCleanupField(s)]]
            /\ timers' = scheduleCleanupTimers(o, s, timers)
  /\ UNCHANGED <<compressionMode, budget, framebuffer, replay, stats, statsCalls, client, rejected, sessions, rid, vstate, vid, vcode, rinbox,
                 inbox, inflight, opening>>

\* websocket.close, viewer branch
ViewerClose(v) ==
  /\ vstate[v] = "open"
  /\ events < budget
  /\ events' = events + 1
  /\ vstate' = [vstate EXCEPT ![v] = "closed"]
  /\ LET o == sessions[vid[v]] IN
       IF o = Null
       THEN UNCHANGED <<sess, timers>>
       ELSE LET s == [sess[o] EXCEPT !.viewers = @ \ {v}] IN
            /\ sess' = [sess EXCEPT ![o] =
                          [s EXCEPT !.cleanupTimer = scheduleCleanupField(s)]]
            /\ timers' = scheduleCleanupTimers(o, s, timers)
  /\ UNCHANGED <<compressionMode, budget, framebuffer, replay, stats, statsCalls, client, rejected, sessions, rid, rstate, vid, vcode, rinbox,
                 inbox, inflight, opening>>

\* the setTimeout callback of scheduleCleanup, for session object o
TimerFire(o) ==
  /\ o \in timers
  /\ timers' = timers \ {o}
  /\ sessions' = [sessions EXCEPT ![sess[o].id] = Null]
  /\ UNCHANGED <<compressionMode, budget, framebuffer, replay, stats, statsCalls, client, rejected, sess, rstate, rid, vstate, vid, vcode,
                 rinbox, inbox, inflight, opening, events>>

Next ==
  \/ \E r \in Runners, id \in SessionIds : RunnerOpen(r, id)
  \/ \E r \in Runners, m \in {ExitText, OtherText} : RunnerText(r, m)
  \/ \E r \in Runners : RunnerBinary(r, TRUE)
  \/ \E h \in inflight : DecompressDone(h)
  \/ \E v \in Viewers, id \in SessionIds : ViewerOpen(v, id)
  \/ \E p \in opening : SnapshotDone(p)
  \/ \E r \in Runners : RunnerClose(r)
  \/ \E v \in Viewers : ViewerClose(v)
  \/ \E o \in Runners : TimerFire(o)

Spec == Init /\ [][Next]_vars

\* a plausible slip: the token is tested in the open handler, after the upgrade
RefusedAfterUpgrade(path, c) ==
  IF path = "/runner"
  THEN /\ rstate' = [rstate EXCEPT ![c] = "unauthorized"]
       /\ sess' = [sess EXCEPT ![c] = NewSession("apple", c)]
       /\ sessions' = [sessions EXCEPT !["apple"] = c]
       /\ UNCHANGED vstate
  ELSE /\ vstate' = [vstate EXCEPT ![c] = "unauthorized"]
       /\ UNCHANGED <<rstate, sess, sessions>>

\* server.ts:153 and 162: the 401 response; no upgrade, no handler runs
Refused(path, c) ==
  IF path = "/runner"
  THEN /\ rstate' = [rstate EXCEPT ![c] = "unauthorized"]
       /\ UNCHANGED <<vstate, sess, sessions>>
  ELSE /\ vstate' = [vstate EXCEPT ![c] = "unauthorized"]
       /\ UNCHANGED <<rstate, sess, sessions>>

\* GET /runner or GET /ws with a token that is not TOKEN
Unauthorized(path, token, c) ==
  /\ token # TOKEN
  /\ IF path = "/runner"
     THEN c \in Runners /\ rstate[c] = "new" /\ NextToConnect(rstate, c)
     ELSE c \in Viewers /\ vstate[c] = "new" /\ NextToConnect(vstate, c)
  /\ events < budget
  /\ events' = events + 1
  /\ Refused(path, c)
  /\ UNCHANGED <<compressionMode, budget, framebuffer, replay, stats, statsCalls, client, rejected, timers, rid, vid, vcode,
                 rinbox, inbox, inflight, opening>>

\* server.ts:259-266: session.runner.send(msg) / send(session.runner, data)
ViewerForward(o, m) ==
  /\ rinbox' = IF rstate[sess[o].runner] = "open"
               THEN [rinbox EXCEPT ![sess[o].runner] = Append(@, m)]
               ELSE rinbox
  /\ UNCHANGED sess

\* websocket.message, viewer, text or binary frame
ViewerMessage(v, kind) ==
  /\ vstate[v] = "open"
  /\ events < budget
  /\ events' = events + 1
  /\ LET o == sessions[vid[v]] IN
       IF o # Null /\ sess[o].runner # Null
       THEN ViewerForward(o, Msg("viewer", [from |-> v, seq |-> events + 1,
                                            kind |-> kind]))
       ELSE UNCHANGED <<rinbox, sess>>
  /\ UNCHANGED <<compressionMode, budget, framebuffer, replay, stats, statsCalls, client, rejected, sessions, timers, rstate, rid,
                 vstate, vid, vcode, inbox, inflight, opening>>

InitRelay == Startup(MaxRelayEvents)

NextRelay ==
  \/ \E r \in Runners, id \in SessionIds : RunnerOpen(r, id)
  \/ \E path \in {"/runner", "/ws"}, token \in Tokens, c \in Runners \cup Viewers :
        Unauthorized(path, token, c)
  \/ \E r \in Runners, m \in TextMessages : RunnerText(r, m)
  \/ \E r \in Runners, valid \in BOOLEAN : RunnerBinary(r, valid)
  \/ \E h \in inflight : DecompressDone(h)
  \/ \E v \in Viewers, id \in SessionIds : ViewerOpen(v, id)
  \/ \E p \in opening : SnapshotDone(p)
  \/ \E v \in Viewers, kind \in {"text", "binary"} : ViewerMessage(v, kind)
  \/ \E r \in Runners : RunnerClose(r)
  \/ \E v \in Viewers : ViewerClose(v)
  \/ \E o \in Runners : TimerFire(o)

SpecRelay == InitRelay /\ [][NextRelay]_vars

\* the timer callbacks run once their delay has passed
SpecLive == InitLive /\ [][Next]_vars /\ \A o \in Runners : WF_vars(TimerFire(o))

\* ------------------------------------------------- the framebuffer alone
relayVars == <<compressionMode, sessions, sess, timers, rstate, rid, vstate, vid,
               vcode, rinbox, inbox, inflight, opening, rejected>>

CSI(params, command) == <<"ESC", "[">> \o params \o <<command>>

\* n copies of one character
Run(char, n) == [j \in 1..n |-> char]

\* what one write call can carry
FbTexts ==
  {<<"a">>, <<"LF">>, <<"CR">>, <<"ESC", "7">>, <<"ESC", "8">>, <<"ESC", "M">>,
   <<"ESC", "c">>, CSI(<<>>, "s"), CSI(<<>>, "u"),
   CSI(<<"5", ";", "9">>, "r"), CSI(<<"2", ";", "1">>, "r"),
   CSI(<<"2", ";", "2">>, "r"),
   CSI(<<>>, "P"), CSI(<<>>, "@"), CSI(<<"1">>, "K"), CSI(<<>>, "L"),
   CSI(<<>>, "M"), CSI(<<"?", "1", "0", "4", "9">>, "h"),
   CSI(<<"?", "1", "0", "4", "9">>, "l"), CSI(<<"?", "2", "5">>, "l"),
   CSI(<<"1">>, "m"), CSI(<<>>, "H"), CSI(<<"2">>, "J")}

\* the sizes a resize call can ask for
FbSizes == {<<FbCols - 1, FbRows - 1>>, <<FbCols + 1, FbRows + 1>>}

InitFb == Startup(MaxFbCalls) /\ compressionMode = "none"

\* framebuffer.write(text)
FramebufferWrite(text) ==
  /\ events < budget
  /\ events' = events + 1
  /\ framebuffer' = FbWrite(framebuffer, text)
  /\ UNCHANGED <<relayVars, stats, statsCalls, client, replay, budget>>

\* framebuffer.resize(cols, rows)
FramebufferResize(size) ==
  /\ events < budget
  /\ events' = events + 1
  /\ framebuffer' = FbResize(framebuffer, size[1], size[2])
  /\ UNCHANGED <<relayVars, stats, statsCalls, client, replay, budget>>

NextFb ==
  \/ \E text \in FbTexts : FramebufferWrite(text)
  \/ \E size \in FbSizes : FramebufferResize(size)

SpecFb == InitFb /\ [][NextFb]_vars

NextFbWrites == \E text \in FbTexts : FramebufferWrite(text)

SpecFbWrites == InitFb /\ [][NextFbWrites]_vars

\* ------------------------------------------------- the codec alone
\* compressForReplay(data), with the padding generateRandomPadding drew
CompressForReplay(data, padding) ==
  /\ replay' = [stage |-> "framed", data |-> data, padding |-> padding,
                frame |-> compressForReplayBytes(data, padding), out |-> <<>>]
  /\ UNCHANGED <<relayVars, stats, statsCalls, client, framebuffer, events, budget>>

\* decompressFromBuffer(frame)
DecompressFromBuffer ==
  /\ replay.stage = "framed"
  /\ replay' = [replay EXCEPT !.stage = "done",
                              !.out = decompressFromBuffer(replay.frame)]
  /\ UNCHANGED <<relayVars, stats, statsCalls, client, framebuffer, events, budget>>

InitCodec == Startup(0)

NextCodec ==
  \/ \E data \in ReplayData, padding \in Paddings : CompressForReplay(data, padding)
  \/ DecompressFromBuffer

SpecCodec == InitCodec /\ [][NextCodec]_vars

\* ------------------------------------------------- the saved cursor
\* the texts that save the cursor, that restore it, and the full reset
SaveTexts == {<<"ESC", "7">>, CSI(<<>>, "s")}
RestoreTexts == {<<"ESC", "8">>, CSI(<<>>, "u")}
FullReset == <<"ESC", "c">>

\* what one write call can carry when the saved cursor is exercised: the
\* texts above and texts that move the cursor or change the attributes
CursorTexts ==
  SaveTexts \cup RestoreTexts \cup
  {FullReset, <<"a">>, <<"LF">>, CSI(<<"1">>, "m"), CSI(<<>>, "H"),
   CSI(<<"?", "1", "0", "4", "9">>, "h"), CSI(<<"?", "1", "0", "4", "9">>, "l")}

NextFbCursor ==
  \/ \E text \in CursorTexts : FramebufferWrite(text)
  \/ \E size \in FbSizes : FramebufferResize(size)

SpecFbCursor == InitFb /\ [][NextFbCursor]_vars

\* ------------------------------------------------- the wrap
\* what one write call can carry when the right margin is exercised: runs of
\* printables up to one more than the grid holds, and texts that move the
\* cursor, scroll, set a scroll region or change the attributes
WrapTexts ==
  {Run("a", k) : k \in 1..(FbCols * FbRows + 1)} \cup
  {<<"b">>, <<"LF">>, <<"CR">>, <<"ESC", "M">>, CSI(<<>>, "H"), CSI(<<"1">>, "m"),
   CSI(<<"1", ";", "1">>, "r"), CSI(<<"2", ";", "2">>, "r"), CSI(<<>>, "r")}

NextFbWrap == \E text \in WrapTexts : FramebufferWrite(text)

SpecFbWrap == InitFb /\ [][NextFbWrap]_vars

\* ------------------------------------------------- the alternate screen
SetAlt == CSI(<<"?", "1", "0", "4", "9">>, "h")
ResetAlt == CSI(<<"?", "1", "0", "4", "9">>, "l")

\* what can be written while the alternate screen is shown
AltContents ==
  {<<>>, <<"a">>, <<"a", "LF", "a">>, CSI(<<"2">>, "J"), CSI(<<"1">>, "m") \o <<"a">>,
   <<"ESC", "7">>, CSI(<<"?", "2", "5">>, "l"), <<"ESC", "c">>, SetAlt}

\* a visit to the alternate screen, from its set to the following reset
AltTexts == {SetAlt \o content \o ResetAlt : content \in AltContents}

NextFbAlt == \E text \in FbTexts \cup AltTexts : FramebufferWrite(text)

SpecFbAlt == InitFb /\ [][NextFbAlt]_vars

\* ------------------------------------------------- the parser alone
\* what one write call can carry when the escape parser is exercised: whole
\* sequences, their pieces, and sequences that never end
ParseTexts ==
  {<<"a">>, <<"B">>, <<"LF">>, <<"ESC">>, <<"[">>, <<"m">>, <<"BEL">>,
   <<"ESC", "(">>, <<"ESC", "(", "B">>, <<"ESC", ")", "0", "a">>,
   <<"ESC", "[", "1">>, CSI(<<"1">>, "m"), CSI(<<>>, "H"),
   <<"ESC", "]", "0", ";", "t", "BEL">>, <<"ESC", "]", "0", ";", "t", "ESC", "\\">>,
   <<"ESC", "]">> \o Run("t", CSI_WAIT - 2),
   <<"ESC", "[">> \o Run(";", CSI_WAIT - 2)}

NextFbParse == \E text \in ParseTexts : FramebufferWrite(text)

InitFbParse == Startup(MaxParseCalls) /\ compressionMode = "none"

SpecFbParse == InitFbParse /\ [][NextFbParse]_vars

\* ------------------------------------------------- the colours
\* what one write call can carry when the colours are exercised: the basic,
\* bright, indexed and 24-bit colours, the last two also with operands above
\* 255, a printable that stores the current attributes in a cell, and a reset
ColourTexts ==
  {<<"a">>, CSI(<<>>, "m"), CSI(<<"3", "1">>, "m"), CSI(<<"1", "0", "7">>, "m"),
   CSI(<<"3", "8", ";", "5", ";", "2", "5", "5">>, "m"),
   CSI(<<"3", "8", ";", "5", ";", "3", "0", "0">>, "m"),
   CSI(<<"4", "8", ";", "5", ";", "2", "5", "6">>, "m"),
   CSI(<<"4", "8", ";", "2", ";", "2", "5", "5", ";", "2", "5", "5", ";", "2", "5", "5">>, "m"),
   CSI(<<"3", "8", ";", "2", ";", "9", "9", "9", ";", "0", ";", "0">>, "m")}

NextFbColour == \E text \in ColourTexts : FramebufferWrite(text)

SpecFbColour == InitFbParse /\ [][NextFbColour]_vars

\* ------------------------------------------------- the stats tracker alone
\* what Date.now() can have advanced by between two calls, in milliseconds
ClockSteps == {0, 2500}

\* the byte counts of a frame
FrameBytes == {0, 3}

InitStats == Startup(MaxStatsCalls) /\ compressionMode = "none"

\* recordInbound(bytes) at Date.now() = now + step
RecordInbound(bytes, step) ==
  /\ events < budget
  /\ events' = events + 1
  /\ LET now == statsCalls.now + step IN
     /\ stats' = recordInbound(stats, now, bytes)
     /\ statsCalls' = [statsCalls EXCEPT !.now = now,
          !.recorded = Append(@, [ts |-> now, bytesIn |-> bytes, bytesOut |-> 0,
                                  framesIn |-> 1, framesOut |-> 0])]
  /\ UNCHANGED <<relayVars, framebuffer, replay, client, budget>>

\* recordOutbound(bytes) at Date.now() = now + step
RecordOutbound(bytes, step) ==
  /\ events < budget
  /\ events' = events + 1
  /\ LET now == statsCalls.now + step IN
     /\ stats' = recordOutbound(stats, now, bytes)
     /\ statsCalls' = [statsCalls EXCEPT !.now = now,
          !.recorded = Append(@, [ts |-> now, bytesIn |-> 0, bytesOut |-> bytes,
                                  framesIn |-> 0, framesOut |-> 1])]
  /\ UNCHANGED <<relayVars, framebuffer, replay, client, budget>>

\* getSnapshot() at Date.now() = now + step
GetSnapshot(step) ==
  /\ events < budget
  /\ events' = events + 1
  /\ LET now == statsCalls.now + step IN
     /\ stats' = [stats EXCEPT !.samples = pruneOldSamples(@, now)]
     /\ statsCalls' = [statsCalls EXCEPT !.now = now, !.snapshot = getSnapshot(stats')]
  /\ UNCHANGED <<relayVars, framebuffer, replay, client, budget>>

NextStats ==
  \E step \in ClockSteps :
    \/ \E bytes \in FrameBytes : RecordInbound(bytes, step)
    \/ \E bytes \in FrameBytes : RecordOutbound(bytes, step)
    \/ GetSnapshot(step)

SpecStats == InitStats /\ [][NextStats]_vars

\* ------------------------------------------------- the runner client alone
\* the runner client runs the codec of the mode the relay announced in its
\* session message (handoff.ts:184)
InitClient == Startup(MaxChunks)

\* terminal.data(t, data): up to `await compress`, and in the modes without a
\* codec through ws.send
PtyData ==
  /\ ~client.exited
  /\ events < budget
  /\ events' = events + 1
  /\ LET seq == client.produced + 1 IN
       client' = IF Suspends
                 THEN [client EXCEPT !.produced = seq, !.pending = @ \cup {seq}]
                 ELSE [client EXCEPT !.produced = seq,
                                     !.sent = Append(@, Msg("frame", compress(seq)))]
  /\ UNCHANGED <<relayVars, framebuffer, replay, stats, statsCalls, budget>>

\* the continuation of a suspended data callback: ws.send(compressed); the
\* compress calls are separate promises and settle in any order
CompressDone(seq) ==
  /\ ~client.exited
  /\ seq \in client.pending
  /\ client' = [client EXCEPT !.pending = @ \ {seq},
                              !.sent = Append(@, Msg("frame", compress(seq)))]
  /\ UNCHANGED <<relayVars, framebuffer, replay, stats, statsCalls, events, budget>>

\* proc.exited.then: the exit message, ws.close() and process.exit(code), after
\* which no suspended callback resumes
ProcExited ==
  /\ ~client.exited
  /\ client' = [client EXCEPT !.exited = TRUE,
                              !.sent = @ \o <<Msg("exit", ""), Msg("close", "")>>]
  /\ UNCHANGED <<relayVars, framebuffer, replay, stats, statsCalls, events, budget>>

NextClient ==
  \/ PtyData
  \/ \E seq \in client.pending : CompressDone(seq)
  \/ ProcExited

SpecClient == InitClient /\ [][NextClient]_vars

\* ---------------------------------------------------------------- claims
\* the session objects that exist
Allocated == {o \in Runners : sess[o].alloc}

\* the pending timers whose callback deletes registry entry id
TimersFor(id) == {t \in timers : sess[t].id = id}

\* C1: every session that has a runner or a viewer is in the registry under
\* its id, and no pending cleanup timer would delete that id.
C1_AttachedSessionIsSafe ==
  \A o \in Allocated :
    (sess[o].runner # Null \/ sess[o].viewers # {}) =>
      /\ sessions[sess[o].id] = o
      /\ TimersFor(sess[o].id) = {}

\* C2: no two open runner connections carry the same session id.
C2_OneRunnerPerId ==
  \A r1, r2 \in Runners :
    (r1 # r2 /\ rstate[r1] = "open" /\ rstate[r2] = "open") => rid[r1] # rid[r2]

\* C3: a registry entry goes away only by a cleanup timer firing, and the
\* session it held then has exited = true and no viewers.
C3_RemovedOnlyByTimer ==
  [][\A id \in SessionIds :
       (sessions[id] # Null /\ sessions'[id] # sessions[id]) =>
         /\ \E o \in Runners : TimerFire(o)
         /\ sess[sessions[id]].exited
         /\ sess[sessions[id]].viewers = {}]_vars

\* positions of the frames of one type in a viewer's inbox
At(box, type) == {k \in DOMAIN box : box[k].type = type}

\* C4: a joining viewer gets the compression message, then the snapshot, then
\* ready, and no live runner frame before ready.
C4_JoinOrder ==
  \A v \in Viewers :
    LET box == inbox[v] IN
    /\ box # <<>> => box[1].type = "compression"
    /\ \A k \in At(box, "snapshot") : \A j \in At(box, "ready") : k < j
    /\ \A k \in At(box, "frame") : \E j \in At(box, "ready") : j < k

\* C5: two binary frames of one runner reach every viewer in the order in
\* which the relay received them.
C5_FanoutOrder ==
  \A v \in Viewers :
    \A j, k \in At(inbox[v], "frame") :
      (j < k /\ inbox[v][j].body.from = inbox[v][k].body.from) =>
        inbox[v][j].body.seq < inbox[v][k].body.seq

\* C6: under zstd and smaz the snapshot frame of a joining viewer carries the
\* pad header [u16 padLen][padLen random bytes] before the compressed payload.
C6_SnapshotPadded ==
  compressionMode \in {"zstd", "smaz"} =>
    \A v \in Viewers :
      \A k \in At(inbox[v], "snapshot") :
        /\ inbox[v][k].body.padLen >= MIN_PADDING
        /\ inbox[v][k].body.padLen < MAX_PADDING

\* C7: a connected viewer is in the viewers set of exactly one session, the
\* one registered under the viewer's id.
C7_ViewerInRegisteredSession ==
  \A v \in Viewers :
    vstate[v] = "open" =>
      /\ Cardinality({o \in Allocated : v \in sess[o].viewers}) = 1
      /\ sessions[vid[v]] # Null
      /\ v \in sess[sessions[vid[v]]].viewers

\* C8: when a viewer joins a session whose cleanup timer is pending, no timer
\* that deletes the session's id is pending after the join.
C8_JoinCancelsTimers ==
  [][\A v \in Viewers :
       (/\ vstate[v] = "new"
        /\ vstate'[v] = "open"
        /\ sessions[vid'[v]] \in timers) =>
         \A t \in timers' : sess'[t].id # vid'[v]]_vars

\* a registered session without runner and without viewers
Idle(id) ==
  /\ sessions[id] # Null
  /\ sess[sessions[id]].runner = Null
  /\ sess[sessions[id]].viewers = {}

\* C9: once the runner is gone and the viewers set is empty, the id leaves
\* the registry unless a viewer joins first.
C9_IdleSessionIsCleaned ==
  \A id \in SessionIds :
    Idle(id) ~> (sessions[id] = Null \/ sess[sessions[id]].viewers # {})

\* C9 witness: a session that a runner and a viewer both left was deleted by
\* its timer.
C9_Witness ==
  \E o \in Allocated, v \in Viewers :
    /\ rstate[o] = "closed"
    /\ vstate[v] = "closed" /\ vcode[v] = 0 /\ vid[v] = sess[o].id
    /\ sess[o].viewers = {}
    /\ sess[o].cleanupTimer /\ o \notin timers
    /\ sessions[sess[o].id] = Null

\* C10: a viewer that connects with an unregistered id is closed with 4004,
\* joins no viewers set, is sent nothing, and no session is made or changed.
C10_UnknownSessionRejected ==
  /\ [][\A v \in Viewers :
          (vstate[v] = "new" /\ vstate'[v] # "new" /\ sessions[vid'[v]] = Null) =>
            /\ vstate'[v] = "closed"
            /\ vcode'[v] = 4004
            /\ sess' = sess /\ sessions' = sessions /\ timers' = timers
            /\ inbox' = inbox /\ opening' = opening]_vars
  /\ [](\A v \in Viewers :
          vcode[v] = 4004 =>
            /\ inbox[v] = <<>>
            /\ \A o \in Runners : v \notin sess[o].viewers)

\* C10 witness: a viewer was rejected for an id whose session had been
\* cleaned up.
C10_Witness ==
  \E v \in Viewers, o \in Allocated :
    /\ vcode[v] = 4004 /\ vstate[v] = "closed"
    /\ sess[o].id = vid[v]
    /\ sess[o].cleanupTimer /\ o \notin timers
    /\ sessions[vid[v]] = Null


\* C11: a request to /runner or /ws with a wrong token is answered 401 and
\* changes nothing: the registry, every session, the timers and what every
\* connection has been sent stay as they were, and the connection is not upgraded.
C11_BadTokenChangesNothing ==
  [][\A path \in {"/runner", "/ws"}, token \in Tokens \ {TOKEN},
        c \in Runners \cup Viewers :
       Unauthorized(path, token, c) =>
         /\ sessions' = sessions
         /\ sess' = sess
         /\ timers' = timers
         /\ inbox' = inbox /\ rinbox' = rinbox
         /\ IF path = "/runner"
            THEN rstate'[c] = "unauthorized" /\ rid'[c] = ""
            ELSE vstate'[c] = "unauthorized" /\ vid'[c] = ""]_vars

\* a runner request was refused while a session with a viewer exists
C11_Witness ==
  /\ \E r \in Runners : rstate[r] = "unauthorized"
  /\ \E o \in Allocated : sessions[sess[o].id] = o /\ sess[o].viewers # {}

\* the session a viewer is in
SessionOf(v) == {o \in Allocated : v \in sess[o].viewers}

\* C12: every live frame the relay sends to a viewer is, byte for byte, a
\* frame it received from the runner of the session the viewer is in (the
\* runner's codec output, unpadded), and no runner frame reaches a viewer twice.
C12_FramesFromOwnRunnerVerbatim ==
  [][\A v \in Viewers : \A k \in At(inbox'[v], "frame") :
       k > Len(inbox[v]) =>
         LET f == inbox'[v][k].body IN
         /\ SessionOf(v) = {f.from}
         /\ \E valid \in BOOLEAN : f.data = RunnerFrame(f.seq, valid)
         /\ f.data.padLen = NoPad
         /\ \A j \in At(inbox[v], "frame") : inbox[v][j].body.seq # f.seq]_vars

\* C13: a viewer's message goes unchanged to the runner of the session the
\* viewer is in when that runner is connected and is dropped when the runner
\* slot is null; it changes no session, timer or registry entry.
C13_ViewerMessageToOwnRunner ==
  [][\A v \in Viewers, kind \in {"text", "binary"} :
       ViewerMessage(v, kind) =>
         \A o \in SessionOf(v) :
           LET m == Msg("viewer", [from |-> v, seq |-> events + 1, kind |-> kind])
           IN
           /\ sess' = sess /\ timers' = timers /\ sessions' = sessions
           /\ IF sess[o].runner # Null /\ rstate[sess[o].runner] = "open"
              THEN rinbox' = [rinbox EXCEPT ![sess[o].runner] = Append(@, m)]
              ELSE rinbox' = rinbox]_vars

\* C14: a runner text frame {type:"exit"} sets its session's exited;
\* {type:"resize"} with cols and rows resizes its session's framebuffer to
\* them; and every text frame, also malformed JSON and unknown types, goes
\* unchanged to every viewer of its session.
C14_RunnerTextHandled ==
  [][\A r \in Runners, m \in TextMessages :
       RunnerText(r, m) =>
         /\ (m = ExitText) => sess'[r].exited
         /\ (m \in ResizeTexts /\ m.cols # 0 /\ m.rows # 0) =>
              /\ sess'[r].framebuffer.cols = m.cols
              /\ sess'[r].framebuffer.rows = m.rows
         /\ \A v \in sess[r].viewers :
              vstate[v] = "open" => inbox'[v] = Append(inbox[v], Msg("text", m))]_vars

\* the steps in which a runner message handler's promise rejected
Rejecting(x) == x \in rejected' /\ x \notin rejected

\* C15 as written: when decompression fails the framebuffer is unchanged, the
\* original frame still goes to every viewer, and runner, viewers and exited
\* keep their values.
C15_FailedFrameStillFannedOut ==
  [][\A o \in Runners, q \in 1..(events + 1) :
       Rejecting([seq |-> q, session |-> o]) =>
         /\ sess' = sess
         /\ \A v \in sess[o].viewers :
              vstate[v] = "open" =>
                /\ Len(inbox'[v]) = Len(inbox[v]) + 1
                /\ inbox'[v][Len(inbox'[v])].type = "frame"
                /\ inbox'[v][Len(inbox'[v])].body.seq = q]_vars

\* C15: when decompression fails the frame is dropped whole: the framebuffer
\* is unchanged, no viewer is sent anything, and runner, viewers and exited
\* keep their values.
C15_FailedFrameDropped ==
  [][\A o \in Runners, q \in 1..(events + 1) :
       Rejecting([seq |-> q, session |-> o]) =>
         /\ sess' = sess
         /\ inbox' = inbox
         /\ rinbox' = rinbox
         /\ sessions' = sessions /\ timers' = timers]_vars

\* a frame was rejected in a session that has a viewer who got its snapshot
C15_Witness ==
  \E x \in rejected : \E v \in sess[x.session].viewers :
    /\ vstate[v] = "open"
    /\ At(inbox[v], "ready") # {}
    /\ sess[x.session].framebuffer.written = <<>>

\* C16: when a runner connection closes, the session it opened has
\* runner = null and exited = true, its cleanup timer is pending exactly when
\* it has no viewers, and its viewers and framebuffer are unchanged.
C16_RunnerCloseMarksExited ==
  [][\A r \in Runners :
       (rstate[r] = "open" /\ rstate'[r] = "closed") =>
         /\ sess'[r].runner = Null
         /\ sess'[r].exited
         /\ (r \in timers') <=> (sess'[r].viewers = {})
         /\ sess'[r].viewers = sess[r].viewers
         /\ sess'[r].framebuffer = sess[r].framebuffer]_vars


\* C17: after any writes and resizes the cursor is in bounds:
\* 0 <= cursor.x < cols and 0 <= cursor.y < rows.
C17_CursorInBounds ==
  /\ 0 <= framebuffer.cursor.x /\ framebuffer.cursor.x < framebuffer.cols
  /\ 0 <= framebuffer.cursor.y /\ framebuffer.cursor.y < framebuffer.rows

\* C18: after any writes and resizes the scroll region satisfies
\* 0 <= scrollTop <= scrollBottom < rows.
C18_ScrollRegionInBounds ==
  /\ 0 <= framebuffer.scrollTop
  /\ framebuffer.scrollTop <= framebuffer.scrollBottom
  /\ framebuffer.scrollBottom < framebuffer.rows

\* C19: after any writes and resizes the grid has exactly rows rows and every
\* row has exactly cols cells.
C19_GridIsRowsByCols ==
  /\ Len(framebuffer.cells) = framebuffer.rows
  /\ \A y \in DOMAIN framebuffer.cells :
       /\ framebuffer.cells[y] # undefinedRow
       /\ Len(framebuffer.cells[y]) = framebuffer.cols
       /\ \A x \in DOMAIN framebuffer.cells[y] : framebuffer.cells[y][x] # undefinedCell

\* a fresh framebuffer of S's size fed S.serialize()
Replayed(S) == FbWrite(Framebuffer(S.cols, S.rows), FbSerialize(S))

\* C20: a fresh framebuffer with the dimensions of a state S reached by
\* writes, fed S.serialize(), has S's grid (characters and attributes), S's
\* cursor position and S's cursor visibility.
C20_SerializeRoundTrip ==
  /\ ~FbSerializeThrows(framebuffer)
  /\ Replayed(framebuffer).cells = framebuffer.cells
  /\ Replayed(framebuffer).cursor = framebuffer.cursor


\* C21: for every reachable state S, serializing the fresh framebuffer that
\* was fed S.serialize() gives the same string as S.serialize().
C21_SerializeIdempotent ==
  /\ ~FbSerializeThrows(framebuffer)
  /\ ~FbSerializeThrows(Replayed(framebuffer))
  /\ FbSerialize(Replayed(framebuffer)) = FbSerialize(framebuffer)

\* C22: no write and no resize throws: none reaches through a row or a cell
\* that does not exist.
C22_NeverThrows == ~framebuffer.threw

\* the two halves of text when it is cut after its first k characters
ChunkA(text, k) == SubSeq(text, 1, k)
ChunkB(text, k) == SubSeq(text, k + 1, Len(text))

\* C23: for every text and every cut of it into two chunks, writing the two
\* chunks one after the other leaves the framebuffer (grid, cursor, attributes,
\* scroll region, pending parse buffer) as writing the whole text does.
C23_ChunkingInvariant ==
  [][\A text \in ParseTexts : \A k \in 0..Len(text) :
       FramebufferWrite(text) =>
         framebuffer' = FbWrite(FbWrite(framebuffer, ChunkA(text, k)), ChunkB(text, k))]_vars

\* C24: after any write fewer than 32 characters are retained in the parse
\* buffer, so an escape sequence that never ends cannot hold back later input.
C24_RetainedBelowLimit == Len(framebuffer.parseBuffer) < CSI_WAIT

\* C25: whatever is written between CSI ? 1049 h and the following
\* CSI ? 1049 l, after the reset the grid is cell for cell the primary grid
\* of before the set and the cursor is where it was before the set.
C25_AltScreenRestoresPrimary ==
  [][\A content \in AltContents :
       (/\ framebuffer.altBuffer = NoBuffer
        /\ FramebufferWrite(SetAlt \o content \o ResetAlt)) =>
         /\ framebuffer'.cells = framebuffer.cells
         /\ framebuffer'.cursor.x = framebuffer.cursor.x
         /\ framebuffer'.cursor.y = framebuffer.cursor.y]_vars

\* a save stores the cursor position and the current attributes; every write
\* of a text of others and every resize leaves what was saved alone; a restore
\* puts the cursor and the current attributes back to what was saved
SaveThenRestore(others) ==
  framebuffer.parseBuffer = <<>> =>
    /\ \A text \in SaveTexts :
         FramebufferWrite(text) =>
           framebuffer'.savedCursor = [x |-> framebuffer.cursor.x,
                                       y |-> framebuffer.cursor.y,
                                       attrs |-> framebuffer.currentAttrs]
    /\ \A text \in others :
         FramebufferWrite(text) => framebuffer'.savedCursor = framebuffer.savedCursor
    /\ \A size \in FbSizes :
         FramebufferResize(size) => framebuffer'.savedCursor = framebuffer.savedCursor
    /\ \A text \in RestoreTexts :
         (FramebufferWrite(text) /\ framebuffer.savedCursor # NoSavedCursor) =>
           /\ framebuffer'.cursor.x = framebuffer.savedCursor.x
           /\ framebuffer'.cursor.y = framebuffer.savedCursor.y
           /\ framebuffer'.currentAttrs = framebuffer.savedCursor.attrs

\* C26 as stated: after a save (ESC 7 or CSI s), any sequence of other
\* operations and a restore (ESC 8 or CSI u), the cursor position and the
\* current SGR attributes are those of the time of the save.
C26_RestoreAfterAnyOperations == [][SaveThenRestore(CursorTexts \ SaveTexts)]_vars

\* C26, amended: after a save, any sequence of operations that are neither a
\* save nor the full reset ESC c, and a restore, the cursor position and the
\* current SGR attributes are those of the time of the save.
C26_RestoreAfterOperationsButReset ==
  [][SaveThenRestore(CursorTexts \ (SaveTexts \cup {FullReset}))]_vars

\* a printable was written, the cursor saved behind it, a second printable
\* written, and the restore brought the cursor back behind the first
C26_Witness ==
  /\ events = 4
  /\ ~framebuffer.threw
  /\ framebuffer.savedCursor # NoSavedCursor
  /\ Len(framebuffer.cells) >= 1 /\ Len(framebuffer.cells[1]) >= 2
  /\ framebuffer.cells[1][2].char = "a"
  /\ framebuffer.cursor.x = 1 /\ framebuffer.cursor.y = 0
  /\ framebuffer.savedCursor.x = 1 /\ framebuffer.savedCursor.y = 0

\* C27: in every compression mode decompressFromBuffer gives back what
\* compressForReplay was given; in the padded modes the frame starts with the
\* padding length as a big-endian u16, the padding follows, and what the
\* decoder decompresses is the frame less exactly its first 2 + padLen bytes.
C27_ReplayCodecRoundTrip ==
  /\ replay.stage = "done" => replay.out = replay.data
  /\ (replay.stage # "idle" /\ compressionMode \in {"zstd", "smaz"}) =>
       LET padLen == Len(replay.padding)
           rest == SubSeq(replay.frame, 3 + padLen, Len(replay.frame))
       IN  /\ replay.frame[1] * 256 + replay.frame[2] = padLen
           /\ padLen >= MIN_PADDING /\ padLen < MAX_PADDING
           /\ SubSeq(replay.frame, 3, 2 + padLen) = replay.padding
           /\ replay.stage = "done" =>
                replay.out = IF compressionMode = "zstd"
                             THEN DecompressionStream(rest) ELSE smazDecode(rest)
  /\ (replay.stage # "idle" /\ compressionMode \in {"none", "deflate"}) =>
       replay.frame = replay.data

\* a payload went through the zstd framing with the longest padding and came
\* back
C27_Witness ==
  /\ compressionMode = "zstd"
  /\ replay.stage = "done"
  /\ Len(replay.data) = MaxDataLen
  /\ Len(replay.padding) = MAX_PADDING - 1
  /\ replay.out = replay.data

\* the payloads of the runner frames in a viewer's inbox, in order of delivery
IsFrame(m) == m.type = "frame"
FramePayloads(box) ==
  LET frames == SelectSeq(box, IsFrame)
  IN  [k \in DOMAIN frames |-> decompress(frames[k].body.data)]

\* s is the end of t
IsSuffix(s, t) ==
  /\ Len(s) <= Len(t)
  /\ SubSeq(t, Len(t) - Len(s) + 1, Len(t)) = s

\* the open viewers of session object o
OpenViewers(o) == {v \in sess[o].viewers : vstate[v] = "open"}

\* every open viewer of a session has received, in the order in which they
\* were written to the framebuffer, the frames written since it joined
DeliveredInOrder ==
  \A o \in Runners : \A v \in OpenViewers(o) :
    IsSuffix(FramePayloads(inbox[v]), sess[o].framebuffer.written)

WellFormedGrid(fb) ==
  /\ Len(fb.cells) = fb.rows
  /\ \A y \in DOMAIN fb.cells :
       /\ fb.cells[y] # undefinedRow
       /\ Len(fb.cells[y]) = fb.cols
       /\ \A x \in DOMAIN fb.cells[y] : fb.cells[y][x] # undefinedCell

\* what resize(cols, rows) made of old is new: the cells of the common
\* top-left rectangle kept, every other cell a default blank, the cursor
\* clamped, and the same resize once more changes nothing
Resized(old, new, cols, rows) ==
  /\ new.cols = cols /\ new.rows = rows
  /\ WellFormedGrid(new)
  /\ \A y \in 1..rows : \A x \in 1..cols :
       new.cells[y][x] = IF y <= Min(old.rows, rows) /\ x <= Min(old.cols, cols)
                         THEN old.cells[y][x] ELSE defaultCell
  /\ new.cursor.x = Min(old.cursor.x, cols - 1)
  /\ new.cursor.y = Min(old.cursor.y, rows - 1)
  /\ FbResize(new, cols, rows) = new

\* C29: resize keeps every cell of the top-left rectangle common to the old
\* and the new size, fills the other cells with default blanks, resets the
\* scroll region to [0, rows - 1], clamps the cursor, and is idempotent.
C29_ResizeResetsScrollRegion ==
  [][\A size \in FbSizes :
       (WellFormedGrid(framebuffer) /\ FramebufferResize(size)) =>
         /\ Resized(framebuffer, framebuffer', size[1], size[2])
         /\ framebuffer'.scrollTop = 0
         /\ framebuffer'.scrollBottom = size[2] - 1]_vars

\* the cell a printable leaves behind
Printed(fb, char) == [fb.currentAttrs EXCEPT !.char = char]

\* new is old with char put at row y, column x (both counted from 0) of grid
PutAt(grid, new, y, x, char, attrs) ==
  /\ new.cells = [grid EXCEPT ![y + 1][x + 1] = [attrs EXCEPT !.char = char]]
  /\ new.cursor.x = x + 1
  /\ new.cursor.y = y

\* the grid after the rows of the scroll region have moved up by one and a
\* blank row has come in at the bottom of the region
ScrolledUp(fb) ==
  [y \in 1..fb.rows |->
     IF y < fb.scrollTop + 1 \/ y > fb.scrollBottom + 1 THEN fb.cells[y]
     ELSE IF y < fb.scrollBottom + 1 THEN fb.cells[y + 1]
     ELSE [x \in 1..fb.cols |-> defaultCell]]

\* one printable is written: before the right margin it is stored under the
\* cursor and the cursor moves right, into the phantom column after the last
\* column; from the phantom column it is stored in column 0 of the line a
\* linefeed leads to, and nothing else changes but by that linefeed
DeferredWrap(old, new, char) ==
  LET x == old.cursor.x
      y == old.cursor.y
  IN  IF x < old.cols THEN PutAt(old.cells, new, y, x, char, old.currentAttrs)
      ELSE IF y = old.scrollBottom
      THEN PutAt(ScrolledUp(old), new, y, 0, char, old.currentAttrs)
      ELSE IF y < old.rows - 1
      THEN PutAt(old.cells, new, y + 1, 0, char, old.currentAttrs)
      ELSE PutAt(old.cells, new, y, 0, char, old.currentAttrs)

\* every step that writes one printable is a deferred-wrap step
DeferredWrapSteps ==
  \A char \in {"a", "b"} :
    FramebufferWrite(<<char>>) => DeferredWrap(framebuffer, framebuffer', char)

\* fb is the empty screen after k printables: the first k cells in row-major
\* order hold the printable, the others are blank
RowMajor(fb, k) ==
  \A y \in 1..fb.rows : \A x \in 1..fb.cols :
    fb.cells[y][x] = IF (y - 1) * fb.cols + x <= k
                     THEN [defaultCell EXCEPT !.char = "a"] ELSE defaultCell

\* the cursor after k printables from the origin, k not a multiple of cols
CursorAfter(fb, k) ==
  k % fb.cols # 0 => (fb.cursor.x = k % fb.cols /\ fb.cursor.y = k \div fb.cols)

\* every step that writes k printables, for a k of counts, to the empty
\* screen fills it in row-major order and leaves the cursor after the last
PrintableRuns(counts) ==
  \A k \in counts :
    (framebuffer = Framebuffer(FbCols, FbRows) /\ FramebufferWrite(Run("a", k))) =>
      /\ RowMajor(framebuffer', k)
      /\ CursorAfter(framebuffer', k)

\* C30 as stated: deferred wrap, and writing k printables from the origin of
\* an empty screen fills the cells in row-major order and ends with the cursor
\* at (k mod cols, k div cols), for every k that is not a multiple of cols.
C30_DeferredWrapAnyCount ==
  [][DeferredWrapSteps /\ PrintableRuns(1..(FbCols * FbRows + 1))]_vars

\* C30, amended: deferred wrap (on the last row and below the scroll region
\* the wrap stays on the line), and writing k printables from the origin of
\* an empty screen fills the cells in row-major order and ends with the cursor
\* at (k mod cols, k div cols), for k not a multiple of cols and no more than
\* the grid holds.
C30_DeferredWrapWithinGrid ==
  [][DeferredWrapSteps /\ PrintableRuns(1..(FbCols * FbRows))]_vars

\* one write of cols + 1 printables to the empty screen has wrapped once
C30_Witness ==
  /\ events = 1
  /\ framebuffer.cursor.x = 1 /\ framebuffer.cursor.y = 1
  /\ framebuffer.cells[2][1].char = "a"
  /\ \A x \in 1..framebuffer.cols : framebuffer.cells[1][x].char = "a"

\* what a linefeed made of old is new: on scrollBottom the scroll region has
\* moved up by one and the cursor has stayed, above the last row the cursor
\* has moved down by one, and nothing else has changed
LinefeedDone(old, new) ==
  /\ new.cells = IF old.cursor.y = old.scrollBottom THEN ScrolledUp(old) ELSE old.cells
  /\ new.cursor.y = IF old.cursor.y # old.scrollBottom /\ old.cursor.y < old.rows - 1
                    THEN old.cursor.y + 1 ELSE old.cursor.y
  /\ new.cursor.x = old.cursor.x
  /\ new.scrollTop = old.scrollTop /\ new.scrollBottom = old.scrollBottom
  /\ new.currentAttrs = old.currentAttrs

\* C31: a linefeed with the cursor on scrollBottom moves the rows of the
\* scroll region up by one (row scrollTop goes, a blank row comes in at
\* scrollBottom), leaves the rows outside the region and the cursor alone;
\* otherwise it moves the cursor down by one above the last row and changes
\* nothing else.
C31_LinefeedScrollsRegion ==
  [][(/\ framebuffer.parseBuffer = <<>>
      /\ WellFormedGrid(framebuffer)
      /\ FramebufferWrite(<<"LF">>)) => LinefeedDone(framebuffer, framebuffer')]_vars

\* the rows of new outside the scroll region of old are the rows of old, and
\* the grid has as many rows as before
OutsideRegionKept(old, new) ==
  /\ Len(new.cells) = Len(old.cells)
  /\ \A r \in 1..Len(old.cells) :
       (r - 1 < old.scrollTop \/ r - 1 > old.scrollBottom) => new.cells[r] = old.cells[r]

\* C32: insert lines (CSI n L) and delete lines (CSI n M) change only rows
\* inside the scroll region and keep the row count: wherever the cursor is,
\* also outside the scroll region, every row above scrollTop and every row
\* below scrollBottom is unchanged
C32_InsertDeleteLinesInsideRegion ==
  [][(/\ framebuffer.parseBuffer = <<>>
      /\ WellFormedGrid(framebuffer)
      /\ C18_ScrollRegionInBounds
      /\ \/ FramebufferWrite(CSI(<<>>, "L"))
         \/ FramebufferWrite(CSI(<<>>, "M"))) => OutsideRegionKept(framebuffer, framebuffer')]_vars

\* fg and bg of these attributes are integers from -1 (default) to 255
ColourInRange(attrs) ==
  /\ attrs.fg \in Int /\ attrs.fg >= -1 /\ attrs.fg <= 255
  /\ attrs.bg \in Int /\ attrs.bg >= -1 /\ attrs.bg <= 255

\* C33: whatever has been written, fg and bg of the current attributes and of
\* every grid cell are integers from -1 to 255, also after CSI 38;5;n m and
\* CSI 48;5;n m with n above 255 and after CSI 38;2;r;g;b m with components
\* above 255
C33_ColoursInRange ==
  /\ ColourInRange(framebuffer.currentAttrs)
  /\ \A r \in 1..Len(framebuffer.cells) : \A c \in 1..Len(framebuffer.cells[r]) :
       ColourInRange(framebuffer.cells[r][c])

\* a character of the parameter part of a CSI sequence ([0-9;])
IsParam(c) == IsDigit(c) \/ c = ";"

\* ESC [ with an optional prefix character and parameter characters: what a
\* final character would complete to a CSI sequence
CsiPrefix(buf) ==
  /\ Len(buf) >= 2 /\ buf[1] = "ESC" /\ buf[2] = "["
  /\ Len(buf) >= 3 => (buf[3] \in {"?", "!", ">"} \/ IsParam(buf[3]))
  /\ \A k \in 4..Len(buf) : IsParam(buf[k])

\* ESC ] and a string without a terminator: what BEL or ESC \ would complete
\* to an OSC sequence
OscPrefix(buf) ==
  /\ Len(buf) >= 2 /\ buf[1] = "ESC" /\ buf[2] = "]"
  /\ \A k \in 3..Len(buf) : buf[k] # "BEL"
  /\ \A k \in 3..(Len(buf) - 1) : ~(buf[k] = "ESC" /\ buf[k + 1] = "\\")

\* C34: after each write the buffer of incomplete input is empty or a proper
\* prefix of a sequence the parser recognises: it starts at an ESC and more
\* input can still complete it, so it holds no input that can no longer
\* become valid
C34_RetainedIsProperPrefix ==
  \/ framebuffer.parseBuffer = <<>>
  \/ framebuffer.parseBuffer = <<"ESC">>
  \/ CsiPrefix(framebuffer.parseBuffer)
  \/ OscPrefix(framebuffer.parseBuffer)

\* the records made in the 5 seconds before the last call
RecordedLast5s ==
  LET recent(r) == statsCalls.now - r.ts < LAST_5S
  IN SelectSeq(statsCalls.recorded, recent)

\* every retained sample is younger than 5 seconds at the last call
SamplesYoung ==
  \A k \in 1..Len(stats.samples) : statsCalls.now - stats.samples[k].ts < LAST_5S

\* the totals are the sums over every record made
TotalsAreSums ==
  /\ stats.totalBytesIn = reduce(statsCalls.recorded, "bytesIn")
  /\ stats.totalBytesOut = reduce(statsCalls.recorded, "bytesOut")
  /\ stats.totalFramesIn = reduce(statsCalls.recorded, "framesIn")
  /\ stats.totalFramesOut = reduce(statsCalls.recorded, "framesOut")

\* the snapshot counts the records of the last 5 seconds, and no more than
\* the totals
SnapshotIsLast5s ==
  LET s == statsCalls.snapshot IN
  /\ s.bytesInLast5s = reduce(RecordedLast5s, "bytesIn")
  /\ s.bytesOutLast5s = reduce(RecordedLast5s, "bytesOut")
  /\ s.framesInLast5s = reduce(RecordedLast5s, "framesIn")
  /\ s.framesOutLast5s = reduce(RecordedLast5s, "framesOut")
  /\ s.totalBytesIn = stats.totalBytesIn /\ s.totalBytesOut = stats.totalBytesOut
  /\ s.totalFramesIn = stats.totalFramesIn /\ s.totalFramesOut = stats.totalFramesOut
  /\ s.bytesInLast5s <= s.totalBytesIn /\ s.bytesOutLast5s <= s.totalBytesOut
  /\ s.framesInLast5s <= s.totalFramesIn /\ s.framesOutLast5s <= s.totalFramesOut

\* C35: after every call of recordInbound, recordOutbound and getSnapshot
\* every retained sample is younger than 5 seconds at the time of the call and
\* the totals are the sums over all records ever made; what getSnapshot
\* returns counts exactly the records made in the last 5 seconds, each count
\* at most its total
C35_StatsWindowAndTotals ==
  [][/\ SamplesYoung'
     /\ TotalsAreSums'
     /\ (\E step \in ClockSteps : GetSnapshot(step)) => SnapshotIsLast5s']_vars

\* a snapshot taken after a record has left the window and while another is
\* still inside it
C35_Witness ==
  /\ Len(statsCalls.recorded) >= 2
  /\ Len(RecordedLast5s) >= 1
  /\ Len(RecordedLast5s) < Len(statsCalls.recorded)
  /\ statsCalls.snapshot.bytesInLast5s > 0
  /\ statsCalls.snapshot.bytesInLast5s < statsCalls.snapshot.totalBytesIn
  /\ statsCalls.snapshot.totalFramesIn = stats.totalFramesIn
  /\ statsCalls.snapshot.totalFramesOut = stats.totalFramesOut

\* the payloads a snapshot frame contains: what had been written to the
\* framebuffer when it was serialized
InSnapshot(m) == {m.body.payload.written[k] : k \in DOMAIN m.body.payload.written}

\* the payloads of the runner frames in a viewer's inbox behind position k
FramesAfter(box, k) ==
  {decompress(box[j].body.data) : j \in {i \in At(box, "frame") : i > k}}

\* C36: for every viewer that has joined a session and got its snapshot, and
\* every runner frame written to that session's framebuffer, the frame is
\* either contained in the snapshot or delivered to the viewer after the
\* snapshot, never neither and never both, whatever the interleaving of the
\* open handler with runner frames in flight
C36_JoinerConsistency ==
  \A v \in Viewers : \A o \in SessionOf(v) : \A k \in At(inbox[v], "snapshot") :
    \A n \in DOMAIN sess[o].framebuffer.written :
      LET p == sess[o].framebuffer.written[n] IN
      (p \in InSnapshot(inbox[v][k])) # (p \in FramesAfter(inbox[v], k))

\* C37: a cleanup timer that fires removes from the registry only the session
\* object for which it was scheduled, never a different session registered
\* later under the same id
C37_TimerRemovesOwnSession ==
  [][\A o \in Runners : \A id \in SessionIds :
       (TimerFire(o) /\ sessions[id] # Null /\ sessions'[id] = Null) => sessions[id] = o]_vars

\* C38: after any runner text message the cols and rows of every session's
\* framebuffer are integers of at least 1: a resize message whose cols or
\* rows is zero, negative or no integer does not change the framebuffer
C38_DimensionsPositive ==
  \A o \in Allocated :
    /\ sess[o].framebuffer.cols \in Nat \ {0}
    /\ sess[o].framebuffer.rows \in Nat \ {0}

\* C40: in every reachable state a session whose runner slot is null has
\* exited = true, and exited of a session never returns from true to false
C40_NoRunnerMeansExited ==
  [][\A o \in Runners :
       /\ (sess'[o].alloc /\ sess'[o].runner = Null) => sess'[o].exited
       /\ (sess[o].alloc /\ sess[o].exited) => (sess'[o].alloc /\ sess'[o].exited)]_vars

\* a session has lost its runner, and a session that the runner declared
\* exited still has its runner attached
C40_Witness ==
  /\ \E o \in Allocated : sess[o].runner = Null /\ sess[o].exited
  /\ \E o \in Allocated : sess[o].runner # Null /\ sess[o].exited

\* C39: the runner client sends the PTY chunks in the order in which they were
\* produced, and the exit message and the close of the socket come only after
\* every chunk produced before the child exited has been sent: the await of
\* compress lets no later chunk, exit or close overtake an earlier chunk
C39_RunnerSendOrder ==
  LET sent == client.sent IN
  /\ \A j, k \in At(sent, "frame") :
       j < k => decompress(sent[j].body) < decompress(sent[k].body)
  /\ \A k \in At(sent, "exit") \cup At(sent, "close") :
       \A seq \in 1..client.produced :
         \E j \in At(sent, "frame") : j < k /\ decompress(sent[j].body) = seq


====
